---- MODULE Spec2Model ----
\* INTcoin mobile wallet core: MobileRPC (balance / UTXO / history view, fee
\* estimator, header sync request) and the MobileSDK facade that drives it.
EXTENDS Integers, Sequences, FiniteSets, TLC

\* ======================================================================
\* Fixed-width unsigned arithmetic.
\* A uint64_t is held as four 16-bit limbs, least significant first, so that
\* values up to 2^64-1 and their wrap-around are exact; a uint32_t is a uint64
\* whose two upper limbs are zero.
\* ======================================================================
Limb == 256 * 256

U64(n) == <<n % Limb, n \div Limb, 0, 0>>

Zero64 == <<0, 0, 0, 0>>

One64 == <<1, 0, 0, 0>>

\* the value of a word that fits a model integer
Fits(x) == x[3] = 0 /\ x[4] = 0 /\ x[2] < Limb \div 2

ToNat(x) == x[2] * Limb + x[1]

\* static_cast<uint32_t>(x): keep the low 32 bits
Trunc32(x) == <<x[1], x[2], 0, 0>>

\* x + y modulo 2^64 (the carry out of the top limb is dropped)
Add64(x, y) ==
    LET s1 == x[1] + y[1]
        s2 == x[2] + y[2] + (s1 \div Limb)
        s3 == x[3] + y[3] + (s2 \div Limb)
        s4 == x[4] + y[4] + (s3 \div Limb)
    IN  <<s1 % Limb, s2 % Limb, s3 % Limb, s4 % Limb>>

\* x - y modulo 2^64 (two's complement)
Sub64(x, y) ==
    LET c == <<Limb - 1 - y[1], Limb - 1 - y[2], Limb - 1 - y[3], Limb - 1 - y[4]>>
    IN  Add64(Add64(x, c), One64)

Lt64(x, y) ==
    \/ x[4] < y[4]
    \/ x[4] = y[4] /\ x[3] < y[3]
    \/ x[4] = y[4] /\ x[3] = y[3] /\ x[2] < y[2]
    \/ x[4] = y[4] /\ x[3] = y[3] /\ x[2] = y[2] /\ x[1] < y[1]

Le64(x, y) == ~Lt64(y, x)

Min64(x, y) == IF Lt64(y, x) THEN y ELSE x

\* the 32-bit product of two limbs as <<low limb, high limb>>
MulLimb(a, b) ==
    LET p == a * (b \div 256)
        t == (p % 256) * 256 + a * (b % 256)
    IN  <<t % Limb, (p \div 256) + (t \div Limb)>>

\* x * y modulo 2^64 (schoolbook: the limb products summed column by column,
\* then the carries propagated; columns above the top limb are dropped)
Mul64(x, y) ==
    LET p(i, j) == MulLimb(x[i], y[j])
        c1 == p(1, 1)[1]
        c2 == p(1, 1)[2] + p(1, 2)[1] + p(2, 1)[1] + (c1 \div Limb)
        c3 == p(1, 2)[2] + p(2, 1)[2] + p(1, 3)[1] + p(2, 2)[1] + p(3, 1)[1]
              + (c2 \div Limb)
        c4 == p(1, 3)[2] + p(2, 2)[2] + p(3, 1)[2]
              + p(1, 4)[1] + p(2, 3)[1] + p(3, 2)[1] + p(4, 1)[1] + (c3 \div Limb)
    IN  <<c1 % Limb, c2 % Limb, c3 % Limb, c4 % Limb>>

\* x * y in uint32_t arithmetic: the two low columns of the product
Mul32(x, y) ==
    LET p11 == MulLimb(x[1], y[1])
        c2 == p11[2] + MulLimb(x[1], y[2])[1] + MulLimb(x[2], y[1])[1]
    IN  <<p11[1], c2 % Limb, 0, 0>>

\* x + y in uint32_t arithmetic
Add32(x, y) == Trunc32(Add64(x, y))

\* x - y in uint32_t arithmetic
Sub32(x, y) == Trunc32(Sub64(x, y))

\* x / d, unsigned, for a divisor below 2^15 (short division from the top limb)
DivSmall(x, d) ==
    LET t4 == x[4]
        t3 == (t4 % d) * Limb + x[3]
        t2 == (t3 % d) * Limb + x[2]
        t1 == (t2 % d) * Limb + x[1]
    IN  <<t1 \div d, t2 \div d, t3 \div d, t4 \div d>>

\* x / d, unsigned, d # 0: short division for a small divisor, repeated
\* subtraction otherwise
RECURSIVE DivSub(_, _)
DivSub(x, d) == IF Lt64(x, d) THEN Zero64 ELSE Add64(One64, DivSub(Sub64(x, d), d))

Div64(x, d) ==
    IF d[2] = 0 /\ d[3] = 0 /\ d[4] = 0 /\ d[1] < Limb \div 2
    THEN DivSmall(x, d[1])
    ELSE DivSub(x, d)

\* ======================================================================
\* Bounds of the model
\* ======================================================================
\* greatest best height the SPV client reaches
MaxHeight == 3

\* greatest number of transactions (history entries / UTXOs) the wallet holds
MaxTxs == 2

\* greatest confirmation target asked of the fee estimator
MaxTarget == 10

\* ======================================================================
\* State
\* ======================================================================
VARIABLES
    enable_spv,      \* SDKConfig::enable_spv
    spv_client_,     \* the spv_client_ pointer (MobileSDK's and MobileRPC's) is non-null
    rpc_wallet_,     \* MobileRPC::wallet_ is non-null
    sdk_live,        \* the MobileSDK object exists (not yet deleted)
    wallet_,         \* MobileSDK::wallet_ is non-null
    wallet_open_,    \* MobileSDK::wallet_open_
    tx_callback_,    \* MobileSDK::tx_callback_ is set
    best_height,     \* SPVClient::GetBestHeight()
    spv_filter,      \* the SPV client holds a bloom filter
    bloom,           \* the bloom filter of the SPV client
    spv_syncing,     \* SPVClient::IsSyncing()
    sync_state,      \* the state of the SPV client's sync session
    wanted,          \* the heights whose filtered block the session still waits for
    chain_headers,   \* HeaderChain: the stored headers, keyed by hash
    chain_tip,       \* HeaderChain: the hash of the tip
    orphans,         \* HeaderChain: the orphan pool, oldest first
    wallet_utxos,    \* what wallet::Wallet::GetUTXOs() holds
    wallet_history,  \* what wallet::Wallet::GetTransactionHistory() holds
    resp,            \* the last step: the operation called, its request and its result
    calls,           \* the collaborator calls the last operation made
    events           \* the TxEvents the last operation delivered to tx_callback_

vars == <<enable_spv, spv_client_, rpc_wallet_, sdk_live, wallet_, wallet_open_, tx_callback_,
          best_height, spv_filter, bloom, spv_syncing, sync_state, wanted,
          chain_headers, chain_tip, orphans,
          wallet_utxos, wallet_history, resp, calls, events>>

sdkVars == <<enable_spv, wallet_, wallet_open_, tx_callback_>>

sessVars == <<sync_state, wanted>>

spvVars == <<best_height, spv_filter, bloom, spv_syncing, sessVars>>

walletVars == <<wallet_utxos, wallet_history>>

ptrVars == <<spv_client_, rpc_wallet_, sdk_live>>

chainVars == <<chain_headers, chain_tip, orphans>>

\* ======================================================================
\* BloomFilter
\* ======================================================================
\* the size m of the bit array and the number k of hash functions, derived
\* from (expectedItems, falsePositiveRate) at construction; scaled down
FilterBits == 4

HashCount == 2

\* the items offered for insertion stand for byte strings
MaxItems == 3

\* the number n of items a filter is built for: config_.bloom_filter_addresses
\* (100), scaled down
ExpectedItems == 2

\* the per-instance salt: std::time(nullptr) & 0xFFFFFFFF at construction
Tweaks == {0, 1}

\* the seed of hash function i of an instance
Seed(i, tweak) == i * 5 + tweak

\* the seeded non-cryptographic hash
SeededHash(seed, item) == (seed * 4 + item + seed * item * 3) % 64

BitIndex(i, tweak, item) == SeededHash(Seed(i, tweak), item) % FilterBits

\* the bits of an item under the k hash functions
BitsOf(tweak, item) == {BitIndex(i, tweak, item) : i \in 0..(HashCount - 1)}

\* build(n, p, tweak): an empty bit array for n = ExpectedItems elements;
\* count is the filter element count, the number of inserts that set their
\* bits; items is the set of items insert was called with on this instance
Build(tweak) == [bits |-> {}, tweak |-> tweak, count |-> 0, items |-> {}]

\* the capacity guard: the filter holds the n elements it was built for
AtCapacity(f) == f.count >= ExpectedItems

\* insert(item): sets the k bits of the item and counts it; at the capacity
\* guard the filter is left as it is
Insert(f, item) ==
    IF AtCapacity(f) THEN [f EXCEPT !.items = @ \cup {item}]
    ELSE [f EXCEPT !.bits = @ \cup BitsOf(f.tweak, item),
                   !.count = @ + 1,
                   !.items = @ \cup {item}]

\* mayContain(item): all k bits of the item are set
MayContain(f, item) == BitsOf(f.tweak, item) \subseteq f.bits

\* SPVClient::AddWatchAddress: the address goes into the filter the client holds
AddWatchAddress(f, item) == Insert(f, item)

\* the item the placeholder address "int1q..." stands for
PlaceholderItem == 1

RECURSIVE InsertAll(_, _)
InsertAll(f, addresses) ==
    IF addresses = <<>> THEN f
    ELSE InsertAll(Insert(f, Head(addresses)), Tail(addresses))

\* MobileSDK::GetAllAddresses: the list of wallet addresses is still a TODO
GetAllAddresses(open) == <<>>

\* MobileSDK::UpdateBloomFilter: the filter handed to SetBloomFilter holds
\* every address of GetAllAddresses()
UpdateBloomFilter(tweak) == InsertAll(Build(tweak), GetAllAddresses(TRUE))

\* ======================================================================
\* HeaderChain
\* ======================================================================
\* the number of headers the chain and the orphan pool take after genesis,
\* and the capacity of the orphan pool
MaxHeaders == 3

OrphanPoolSize == 1

\* A header is known by its prevHash and its nonce; its identity is the hash
\* of its serialized form, which no other header shares.
HeaderHash(prev_hash, nonce) == 3 * prev_hash + nonce

Nonces == 0..2

\* the hash satisfies the target derived from difficultyBits
MeetsTarget(hash) == hash % 3 # 0

GenesisHash == 1

GenesisChain == {[hash |-> GenesisHash, prev_hash |-> 0, height |-> 0]}

\* the hard-coded (height, hash) pairs: the genesis block and one header
\* above it (13 is HeaderHash(4, 1), a child of 4 that meets the target)
Checkpoints == {[height |-> 0, hash |-> GenesisHash], [height |-> 2, hash |-> 13]}

StoredHashes(hs) == {h.hash : h \in hs}

StoredHeader(hs, hash) == CHOOSE h \in hs : h.hash = hash

\* every header has the same difficultyBits: the total work of a branch
\* counts its headers
TotalWork(hs, hash) == StoredHeader(hs, hash).height

\* bestHeight(): the height of the tip
BestHeight(hs, tip) == StoredHeader(hs, tip).height

\* the tip once the header at new_hash is stored: the branch with strictly
\* greater total work
TipAfter(hs, tip, new_hash) ==
    IF TotalWork(hs, new_hash) > TotalWork(hs, tip) THEN new_hash ELSE tip

\* prevHash references a header present in the chain or a known checkpoint
\* (the genesis header has no predecessor)
Linked(hs, prev_hash) ==
    \/ prev_hash = 0
    \/ prev_hash \in StoredHashes(hs)
    \/ \E c \in Checkpoints : c.hash = prev_hash

\* the height a header would take: one above its parent, a stored header or
\* a checkpoint, and 0 without a parent
HeightFor(hs, prev_hash) ==
    IF prev_hash = 0 THEN 0
    ELSE IF prev_hash \in StoredHashes(hs) THEN StoredHeader(hs, prev_hash).height + 1
    ELSE (CHOOSE c \in Checkpoints : c.hash = prev_hash).height + 1

\* a checkpoint at that height names another hash
CheckpointViolated(height, hash) ==
    \E c \in Checkpoints : c.height = height /\ c.hash # hash

\* the orphan pool with one more header: the oldest is evicted when full
PoolAdd(pool, header) ==
    IF Len(pool) < OrphanPoolSize THEN Append(pool, header)
    ELSE Append(Tail(pool), header)

\* store a validated header whose parent is stored
Store(c, header) ==
    LET hash == HeaderHash(header.prev_hash, header.nonce)
        hs == c.headers \cup {[hash |-> hash, prev_hash |-> header.prev_hash,
                               height |-> HeightFor(c.headers, header.prev_hash)]}
    IN  [c EXCEPT !.headers = hs, !.tip = TipAfter(hs, c.tip, hash)]

\* the buffered orphans whose parent has arrived are retried, oldest first:
\* one that a checkpoint rules out is dropped, the others are appended
RECURSIVE ConnectOrphans(_)
ConnectOrphans(c) ==
    LET ready == {i \in 1..Len(c.orphans) :
                    c.orphans[i].prev_hash \in StoredHashes(c.headers)}
    IN  IF ready = {} THEN c
        ELSE LET i == CHOOSE j \in ready : \A k \in ready : j <= k
                 orphan == c.orphans[i]
                 rest == [c EXCEPT !.orphans =
                            SubSeq(c.orphans, 1, i - 1) \o
                            SubSeq(c.orphans, i + 1, Len(c.orphans))]
             IN  IF CheckpointViolated(HeightFor(c.headers, orphan.prev_hash),
                                       HeaderHash(orphan.prev_hash, orphan.nonce))
                 THEN ConnectOrphans(rest)
                 ELSE ConnectOrphans(Store(rest, orphan))

\* tryAppend without the proof-of-work validation
TryAppendUnchecked(c, header) ==
    LET hash == HeaderHash(header.prev_hash, header.nonce) IN
    IF ~Linked(c.headers, header.prev_hash)
    THEN [result |-> "RejectedOrphan",
          chain |-> [c EXCEPT !.orphans = PoolAdd(c.orphans, header)]]
    ELSE IF CheckpointViolated(HeightFor(c.headers, header.prev_hash), hash)
    THEN [result |-> "RejectedBadLinkage", chain |-> c]
    ELSE [result |-> "Accepted", chain |-> ConnectOrphans(Store(c, header))]

\* HeaderChain.tryAppend on the chain c = [headers, tip, orphans]
TryAppend(c, header) ==
    LET hash == HeaderHash(header.prev_hash, header.nonce) IN
    IF ~MeetsTarget(hash)
    THEN [result |-> "RejectedInvalidPoW", chain |-> c]
    ELSE IF ~Linked(c.headers, header.prev_hash)
    THEN [result |-> "RejectedOrphan",
          chain |-> [c EXCEPT !.orphans = PoolAdd(c.orphans, header)]]
    ELSE IF CheckpointViolated(HeightFor(c.headers, header.prev_hash), hash)
    THEN [result |-> "RejectedBadLinkage", chain |-> c]
    ELSE [result |-> "Accepted", chain |-> ConnectOrphans(Store(c, header))]

\* the predecessors a peer's header may name: none, a stored header, a
\* checkpoint, or a header that would follow one of these and may be missing
PrevHashes(hs) ==
    LET known == StoredHashes(hs) \cup {c.hash : c \in Checkpoints}
    IN  {0} \cup known \cup {HeaderHash(h, n) : h \in known, n \in Nonces}

\* a peer hands the chain a header it does not hold yet
Chain_TryAppend ==
    /\ Cardinality(chain_headers) + Len(orphans) <= MaxHeaders
    /\ \E prev_hash \in PrevHashes(chain_headers), nonce \in Nonces :
         LET header == [prev_hash |-> prev_hash, nonce |-> nonce]
             hash == HeaderHash(prev_hash, nonce)
             r == TryAppend([headers |-> chain_headers, tip |-> chain_tip,
                             orphans |-> orphans], header)
         IN  /\ hash \notin StoredHashes(chain_headers)
             /\ \A i \in 1..Len(orphans) :
                   HeaderHash(orphans[i].prev_hash, orphans[i].nonce) # hash
             /\ chain_headers' = r.chain.headers
             /\ chain_tip' = r.chain.tip
             /\ orphans' = r.chain.orphans
             /\ resp' = [op |-> "Chain.tryAppend", hash |-> hash,
                         prev_hash |-> prev_hash, result |-> r.result]
    /\ calls' = {}
    /\ events' = <<>>
    /\ UNCHANGED <<sdkVars, spvVars, walletVars, ptrVars>>

\* ======================================================================
\* The sync session inside the SPV client: its start() and stop()
\* ======================================================================
SyncStates == {"Idle", "Connecting", "AwaitingHeaders", "AwaitingFilteredBlocks", "Synced"}

\* start(): Idle -> Connecting; a session already under way goes on
SessionStart ==
    /\ sync_state' = (IF sync_state = "Idle" THEN "Connecting" ELSE sync_state)
    /\ UNCHANGED wanted

\* stop(): the outstanding requests are cancelled and the session is Idle
SessionStop ==
    /\ sync_state' = "Idle"
    /\ wanted' = {}

\* ======================================================================
\* The wallet (wallet::Wallet) as MobileRPC reads it
\* ======================================================================
RECURSIVE SumValues(_)
SumValues(us) == IF us = <<>> THEN 0 ELSE us[1].value + SumValues(Tail(us))

\* wallet_->GetBalance(): the value of the confirmed outputs
WalletGetBalance ==
    SumValues(SelectSeq(wallet_utxos, LAMBDA u : u.block_height > 0))

\* wallet_->GetUnconfirmedBalance(): the value of the outputs not yet in a block
WalletGetUnconfirmedBalance ==
    SumValues(SelectSeq(wallet_utxos, LAMBDA u : u.block_height = 0))

RECURSIVE Pow2(_)
Pow2(n) == IF n = 0 THEN 1 ELSE 2 * Pow2(n - 1)

\* the wallet records a transaction paying it: one history entry and one
\* unspent output, at block height h (0 = not yet in a block; a block may be
\* one ahead of the SPV client's best height)
WalletReceive ==
    /\ rpc_wallet_ \/ wallet_
    /\ Len(wallet_history) < MaxTxs
    /\ \E h \in 0..(best_height + 1) :
         LET n == Len(wallet_history) + 1 IN
         /\ wallet_history' = Append(wallet_history,
                [tx_hash |-> n, amount |-> Pow2(n - 1), block_height |-> h])
         /\ wallet_utxos' = Append(wallet_utxos,
                [tx_hash |-> n, index |-> 0, value |-> Pow2(n - 1), block_height |-> h])
    /\ resp' = [op |-> "WalletReceive"]
    /\ calls' = {}
    /\ events' = <<>>
    /\ UNCHANGED <<sdkVars, spvVars, ptrVars, chainVars>>

\* the SPV client accepts one more block header
NewBlock ==
    /\ spv_client_
    /\ best_height < MaxHeight
    /\ best_height' = best_height + 1
    /\ resp' = [op |-> "NewBlock"]
    /\ calls' = {}
    /\ events' = <<>>
    /\ UNCHANGED <<sdkVars, spv_filter, bloom, spv_syncing, sessVars, walletVars, ptrVars, chainVars>>

\* ======================================================================
\* MobileRPC: confirmations, UTXOs, balance
\* ======================================================================
\* GetConfirmations counting the blocks above the entry's block only
GetConfirmationsNoPlusOne(block_height, best) ==
    IF block_height = 0 \/ block_height > best
    THEN 0
    ELSE ToNat(Trunc32(U64(best - block_height)))

\* MobileRPC::GetConfirmations with best = spv_client_->GetBestHeight()
GetConfirmations(block_height, best) ==
    IF block_height = 0 \/ block_height > best
    THEN 0
    ELSE ToNat(Trunc32(U64(best - block_height + 1)))

\* the confirmations MobileRPC::GetUTXOs computes inline
UtxoConfirmations(block_height, current_height) ==
    IF block_height > 0 /\ current_height >= block_height
    THEN ToNat(Trunc32(U64(current_height - block_height + 1)))
    ELSE 0

\* the loop of GetUTXOs keeping only outputs above the threshold
RECURSIVE FilterUTXOsStrict(_, _, _)
FilterUTXOsStrict(us, current_height, min_confirmations) ==
    IF us = <<>> THEN <<>>
    ELSE LET utxo == us[1]
             confirmations == UtxoConfirmations(utxo.block_height, current_height)
             rest == FilterUTXOsStrict(Tail(us), current_height, min_confirmations)
         IN  IF confirmations > min_confirmations
             THEN <<[tx_hash |-> utxo.tx_hash, output_index |-> utxo.index,
                     amount |-> utxo.value, confirmations |-> confirmations]>> \o rest
             ELSE rest

\* the loop of MobileRPC::GetUTXOs over the wallet's outputs, in order
RECURSIVE FilterUTXOs(_, _, _)
FilterUTXOs(us, current_height, min_confirmations) ==
    IF us = <<>> THEN <<>>
    ELSE LET utxo == us[1]
             confirmations == UtxoConfirmations(utxo.block_height, current_height)
             rest == FilterUTXOs(Tail(us), current_height, min_confirmations)
         IN  IF confirmations >= min_confirmations
             THEN <<[tx_hash |-> utxo.tx_hash, output_index |-> utxo.index,
                     amount |-> utxo.value, confirmations |-> confirmations]>> \o rest
             ELSE rest

RECURSIVE SumAmounts(_)
SumAmounts(us) == IF us = <<>> THEN 0 ELSE us[1].amount + SumAmounts(Tail(us))

\* MobileRPC::GetUTXOs: has_wallet is wallet_ != nullptr, wallet_ok is
\* utxos_result.IsOk(), has_spv is spv_client_ != nullptr
GetUTXOs(has_wallet, wallet_ok, us, has_spv, best, min_confirmations) ==
    LET current_height == IF has_spv THEN best ELSE 0
        found == IF has_wallet /\ wallet_ok
                 THEN FilterUTXOs(us, current_height, min_confirmations)
                 ELSE <<>>
    IN  [ok |-> TRUE, utxos |-> found, total_amount |-> SumAmounts(found)]

\* MobileRPC::GetBalance
GetBalance(has_wallet, balance_ok, unconf_ok, balance, unconf) ==
    IF has_wallet
    THEN LET confirmed == IF balance_ok THEN balance ELSE 0
             unconfirmed == IF unconf_ok THEN unconf ELSE 0
         IN  [ok |-> TRUE, error |-> "",
              confirmed_balance |-> confirmed,
              unconfirmed_balance |-> unconfirmed,
              total_balance |-> confirmed + unconfirmed,
              utxo_count |-> 0]
    ELSE [ok |-> FALSE, error |-> "Wallet not available"]

\* a failing wallet call gives the same empty answer whatever the threshold;
\* the best height is read once the wallet has answered
RPC_GetUTXOs ==
    /\ \E m \in 0..(MaxHeight + 2), wallet_ok \in BOOLEAN :
         /\ wallet_ok \/ m = 0
         /\ resp' = [op |-> "GetUTXOs", min_confirmations |-> m, wallet_ok |-> wallet_ok]
                    @@ GetUTXOs(rpc_wallet_, wallet_ok, wallet_utxos, spv_client_,
                                best_height, m)
         /\ calls' = (IF rpc_wallet_ THEN {"wallet.GetUTXOs"} ELSE {}) \cup
                     (IF rpc_wallet_ /\ wallet_ok /\ spv_client_
                      THEN {"spv.GetBestHeight"} ELSE {})
    /\ events' = <<>>
    /\ UNCHANGED <<sdkVars, spvVars, walletVars, ptrVars, chainVars>>

RPC_GetBalance ==
    /\ \E balance_ok \in BOOLEAN, unconf_ok \in BOOLEAN :
         resp' = [op |-> "GetBalance", balance_ok |-> balance_ok, unconf_ok |-> unconf_ok]
                 @@ GetBalance(rpc_wallet_, balance_ok, unconf_ok,
                               WalletGetBalance, WalletGetUnconfirmedBalance)
    /\ calls' = (IF rpc_wallet_
                 THEN {"wallet.GetBalance", "wallet.GetUnconfirmedBalance"} ELSE {})
    /\ events' = <<>>
    /\ UNCHANGED <<sdkVars, spvVars, walletVars, ptrVars, chainVars>>

\* ======================================================================
\* MobileRPC::GetHistory
\* ======================================================================
\* the page sizes and page numbers requested (uint32_t)
PageSizes == {0, 1, 2, 65536}

Pages == {0, 1, 65536}

\* size_t start_idx = request.page * request.page_size: the product is taken
\* in uint32_t and then widened
StartIdx(page, page_size) == Mul32(U64(page), U64(page_size))

\* size_t end_idx = std::min(start_idx + request.page_size, wallet_history.size())
EndIdx(page, page_size, n) ==
    Min64(Add64(StartIdx(page, page_size), U64(page_size)), U64(n))

\* (total_count + page_size - 1) / page_size in uint32_t, page_size # 0
TotalPages(total_count, page_size) ==
    ToNat(Div64(Sub32(Add32(U64(total_count), U64(page_size)), One64),
                U64(page_size)))

\* the HistoryEntry built from one wallet transaction
HistoryEntry(tx_info, best) ==
    [tx_hash |-> tx_info.tx_hash,
     amount_ints |-> tx_info.amount,
     confirmations |-> GetConfirmations(tx_info.block_height, best)]

\* the loop for (i = start_idx; i < end_idx; ++i) over the wallet history
PageEntries(hist, best, page, page_size) ==
    LET start_idx == StartIdx(page, page_size)
        end_idx == EndIdx(page, page_size, Len(hist))
    IN  IF Lt64(start_idx, end_idx)
        THEN [k \in 1..(ToNat(end_idx) - ToNat(start_idx)) |->
                 HistoryEntry(hist[ToNat(start_idx) + k], best)]
        ELSE <<>>

\* MobileRPC::GetHistory for page_size # 0
GetHistory(has_wallet, wallet_ok, hist, best, page, page_size) ==
    IF has_wallet /\ wallet_ok
    THEN [ok |-> TRUE, crashed |-> FALSE,
          entries |-> PageEntries(hist, best, page, page_size),
          total_count |-> Len(hist),
          rpage |-> page,
          total_pages |-> TotalPages(Len(hist), page_size)]
    ELSE [ok |-> TRUE, crashed |-> FALSE, entries |-> <<>>, total_count |-> 0,
          rpage |-> page, total_pages |-> 0]

\* the process dies inside the call (a trap on undefined behaviour)
Crashed == [ok |-> FALSE, crashed |-> TRUE]

\* what MobileRPC::GetHistory can return. Two reads are undefined: with
\* page_size = 0 the division by zero traps or yields 0, as the target's divide
\* does; with a null spv_client_ and an entry to convert, GetConfirmations
\* dereferences null and traps or reads any height.
GetHistoryOutcomes(has_spv, has_wallet, wallet_ok, hist, best, page, page_size) ==
    IF ~(has_wallet /\ wallet_ok)
    THEN {[ok |-> TRUE, crashed |-> FALSE, entries |-> <<>>, total_count |-> 0,
           rpage |-> page, total_pages |-> 0]}
    ELSE IF page_size = 0
    THEN {Crashed,
          [ok |-> TRUE, crashed |-> FALSE, entries |-> <<>>,
           total_count |-> Len(hist), rpage |-> page, total_pages |-> 0]}
    ELSE IF has_spv \/ ~Lt64(StartIdx(page, page_size), EndIdx(page, page_size, Len(hist)))
    THEN {GetHistory(has_wallet, wallet_ok, hist, best, page, page_size)}
    ELSE {Crashed} \cup
         {GetHistory(has_wallet, wallet_ok, hist, g, page, page_size) : g \in 0..MaxHeight}

\* a failing wallet call gives the same empty page whatever the page asked for;
\* every entry of the page is converted with GetConfirmations, which asks the
\* SPV client for its best height
RPC_GetHistory ==
    /\ \E page \in Pages, page_size \in PageSizes, wallet_ok \in BOOLEAN :
         /\ wallet_ok \/ (page = 0 /\ page_size = 1)
         /\ \E r \in GetHistoryOutcomes(spv_client_, rpc_wallet_, wallet_ok,
                                        wallet_history, best_height, page, page_size) :
              resp' = [op |-> "GetHistory", page |-> page, page_size |-> page_size,
                       wallet_ok |-> wallet_ok] @@ r
         /\ calls' = (IF rpc_wallet_ THEN {"wallet.GetTransactionHistory"} ELSE {}) \cup
                     (IF rpc_wallet_ /\ wallet_ok
                         /\ Lt64(StartIdx(page, page_size),
                                 EndIdx(page, page_size, Len(wallet_history)))
                      THEN {"spv.GetBestHeight"} ELSE {})
    /\ events' = <<>>
    /\ UNCHANGED <<sdkVars, spvVars, walletVars, ptrVars, chainVars>>

\* ======================================================================
\* MobileRPC::EstimateFee
\* ======================================================================
\* the tiers with the fast one ending a block early
BaseFeeRateEarly(target_blocks) ==
    IF target_blocks < 2 THEN 5000
    ELSE IF target_blocks <= 6 THEN 2000
    ELSE 1000

\* the base fee rate in INTS per KB for a confirmation target
BaseFeeRate(target_blocks) ==
    IF target_blocks <= 2 THEN 5000
    ELSE IF target_blocks <= 6 THEN 2000
    ELSE 1000

\* response.confidence, in hundredths
Confidence(target_blocks) ==
    IF target_blocks <= 2 THEN 95
    ELSE IF target_blocks <= 6 THEN 90
    ELSE 80

\* the fee with the product taken in uint32_t
EstimatedFee32(tx_size, base_fee_rate) ==
    LET fee == Div64(Mul32(U64(tx_size), U64(base_fee_rate)), U64(1000))
    IN  IF Lt64(fee, U64(1000)) THEN U64(1000) ELSE fee

\* (request.tx_size * base_fee_rate) / 1000 in uint64_t, raised to the
\* minimum fee of 1000 INTS
EstimatedFee(tx_size, base_fee_rate) ==
    LET fee == Div64(Mul64(U64(tx_size), U64(base_fee_rate)), U64(1000))
    IN  IF Lt64(fee, U64(1000)) THEN U64(1000) ELSE fee

\* MobileRPC::EstimateFee
EstimateFee(tx_size, target_blocks) ==
    [ok |-> TRUE,
     fee_rate |-> BaseFeeRate(target_blocks),
     confidence |-> Confidence(target_blocks),
     estimated_fee |-> EstimatedFee(tx_size, BaseFeeRate(target_blocks))]

\* the transaction sizes asked about (uint32_t)
TxSizes == {0, 1, 199, 200, 250, 499, 500, 999, 1000, 1001, 1999, 429496, 429497,
            858993, 858994, 1000000, 2147483647}

RPC_EstimateFee ==
    /\ \E tx_size \in TxSizes, target_blocks \in 0..MaxTarget :
         resp' = [op |-> "EstimateFee", tx_size |-> tx_size,
                  target_blocks |-> target_blocks]
                 @@ EstimateFee(tx_size, target_blocks)
    /\ calls' = {}
    /\ events' = <<>>
    /\ UNCHANGED <<sdkVars, spvVars, walletVars, ptrVars, chainVars>>

\* MobileSDK::EstimateFee: a typical transaction of 250 bytes; no wallet needed
SDK_EstimateFee ==
    /\ \E target_blocks \in 0..MaxTarget :
         resp' = [op |-> "SDK.EstimateFee", tx_size |-> 250,
                  target_blocks |-> target_blocks]
                 @@ EstimateFee(250, target_blocks)
    /\ calls' = {"rpc.EstimateFee"}
    /\ events' = <<>>
    /\ UNCHANGED <<sdkVars, spvVars, walletVars, ptrVars, chainVars>>

\* ======================================================================
\* MobileRPC::Sync
\* ======================================================================
\* Block hashes: the all-zero uint256 is 0, the header at height h has hash
\* h + 1, every other value is the hash of no header the client holds.
HashOf(h) == h + 1

\* spv_client_->GetHeader(hash).IsOk()
HeaderKnown(hash, best) == 1 <= hash /\ hash <= best + 1

\* uint64_t start_height of MobileRPC::Sync
StartHeight(best, last_block_hash, max_headers) ==
    IF last_block_hash # 0 /\ HeaderKnown(last_block_hash, best)
    THEN (IF best > max_headers THEN best - max_headers ELSE 0)
    ELSE 0

\* uint64_t num_headers = std::min((uint64_t) max_headers, end_height - start_height + 1)
NumHeaders(best, start_height, max_headers) ==
    IF max_headers < best - start_height + 1 THEN max_headers
    ELSE best - start_height + 1

\* the second argument of GetHeadersInRange: start_height + num_headers - 1 in uint64_t
RangeEnd(start_height, num_headers) ==
    Sub64(Add64(U64(start_height), U64(num_headers)), One64)

\* spv_client_->GetHeadersInRange(from, to): the heights of the stored headers
\* between from and to, both included, ascending
GetHeadersInRange(best, from, to) ==
    LET hit(h) == Le64(from, U64(h)) /\ Le64(U64(h), to)
    IN  SelectSeq([k \in 1..(best + 1) |-> k - 1], hit)

\* MobileRPC::Sync
Sync(best, last_block_hash, max_headers) ==
    LET start_height == StartHeight(best, last_block_hash, max_headers)
        num_headers == NumHeaders(best, start_height, max_headers)
        range_end == RangeEnd(start_height, num_headers)
    IN  [ok |-> TRUE,
         start_height |-> start_height,
         range_end |-> range_end,
         headers |-> GetHeadersInRange(best, U64(start_height), range_end),
         best_height |-> best,
         best_hash |-> HashOf(best),
         fee_rate |-> 2000]

\* what MobileRPC::Sync can return. It dereferences spv_client_ with no null
\* test: on a handler built without an SPV client the read is undefined, and
\* the call traps or answers from whatever height it reads.
SyncOutcomes(has_spv, best, last_block_hash, max_headers) ==
    IF has_spv THEN {Sync(best, last_block_hash, max_headers)}
    ELSE {[ok |-> FALSE, crashed |-> TRUE]} \cup
         {Sync(g, last_block_hash, max_headers) : g \in 0..MaxHeight}

\* the calls MobileRPC::Sync makes on the SPV client when it runs to its end
SyncCalls(last_block_hash) ==
    {"spv.SetBloomFilter", "spv.GetBestHeight", "spv.GetHeadersInRange",
     "spv.GetBestHash"} \cup
    (IF last_block_hash # 0 THEN {"spv.GetHeader"} ELSE {})

\* MobileRPC::Sync called on the handler. A trap happens at the first
\* dereference, the call of SetBloomFilter; only a client that exists takes
\* the request's filter.
RPC_Sync ==
    /\ \E last_block_hash \in 0..(MaxHeight + 2), max_headers \in 0..(MaxHeight + 2) :
         \E r \in SyncOutcomes(spv_client_, best_height, last_block_hash, max_headers) :
            /\ resp' = [op |-> "Sync", last_block_hash |-> last_block_hash,
                        max_headers |-> max_headers] @@ r
            /\ calls' = (IF r.ok THEN SyncCalls(last_block_hash)
                         ELSE {"spv.SetBloomFilter"})
    /\ spv_filter' = (IF spv_client_ THEN TRUE ELSE spv_filter)
    /\ \E tweak \in Tweaks : bloom' = (IF spv_client_ THEN Build(tweak) ELSE bloom)
    /\ events' = <<>>
    /\ UNCHANGED <<sdkVars, best_height, spv_syncing, sessVars, walletVars, ptrVars, chainVars>>

\* ======================================================================
\* Specifications of MobileRPC used on its own
\* ======================================================================
\* a MobileRPC handler constructed over an SPV client and a wallet, either of
\* which may be null; no SDK around it
InitRPC ==
    /\ enable_spv = TRUE
    /\ sdk_live = TRUE
    /\ wallet_ = FALSE
    /\ wallet_open_ = FALSE
    /\ tx_callback_ = FALSE
    /\ best_height = 0
    /\ spv_filter = FALSE
    /\ bloom = Build(0)
    /\ spv_syncing = FALSE
    /\ sync_state = "Idle"
    /\ wanted = {}
    /\ chain_headers = GenesisChain
    /\ chain_tip = GenesisHash
    /\ orphans = <<>>
    /\ wallet_utxos = <<>>
    /\ wallet_history = <<>>
    /\ resp = [op |-> "init"]
    /\ calls = {}
    /\ events = <<>>

\* the fee estimator
InitFee == InitRPC /\ spv_client_ = TRUE /\ rpc_wallet_ = FALSE

NextFee == RPC_EstimateFee \/ SDK_EstimateFee

SpecFee == InitFee /\ [][NextFee]_vars

\* the error texts Transaction::Deserialize and BroadcastTransaction may give
DeserializeErrors == {"", "bad bytes"}

BroadcastErrors == {"", "no peers"}

\* the error text of a Result: an Ok result has none
ErrorsOf(is_ok, texts) == IF is_ok THEN {""} ELSE texts

\* what a response.tx_hash that was never assigned may read as: the zero hash,
\* the hash of a transaction, or bytes that are no hash at all (-1)
UnassignedHashes == {-1, 0, 1, 2}

\* MobileRPC::SendTransaction: deser_ok is Transaction::Deserialize(..).IsOk()
\* and tx_error its error text, broadcast_ok is
\* spv_client_->BroadcastTransaction(..).IsOk() and broadcast_error its error
\* text. When Deserialize fails response.tx_hash is returned without having
\* been assigned: unassigned is what it reads as.
SendTransaction(has_spv, deser_ok, tx_error, broadcast_ok, broadcast_error, tx_hash, unassigned) ==
    IF ~deser_ok
    THEN [ok |-> TRUE, accepted |-> FALSE, tx_hash |-> unassigned,
          error |-> "Failed to deserialize transaction: " \o tx_error]
    ELSE IF has_spv /\ ~broadcast_ok
    THEN [ok |-> TRUE, accepted |-> FALSE, tx_hash |-> tx_hash,
          error |-> "Broadcast failed: " \o broadcast_error]
    ELSE [ok |-> TRUE, accepted |-> TRUE, tx_hash |-> tx_hash, error |-> ""]

\* MobileRPC::SendTransaction called on the handler; broadcast tells whether
\* BroadcastTransaction was called and what it answered
RPC_SendTransaction ==
    /\ \E tx_hash \in 1..2, deser_ok \in BOOLEAN, broadcast_ok \in BOOLEAN :
         \E tx_error \in ErrorsOf(deser_ok, DeserializeErrors),
            broadcast_error \in ErrorsOf(broadcast_ok, BroadcastErrors),
            unassigned \in (IF deser_ok THEN {0} ELSE UnassignedHashes) :
         /\ resp' = [op |-> "SendTransaction", deser_ok |-> deser_ok,
                     broadcast |-> IF ~(deser_ok /\ spv_client_) THEN "none"
                                   ELSE IF broadcast_ok THEN "ok" ELSE "failed"]
                    @@ SendTransaction(spv_client_, deser_ok, tx_error, broadcast_ok,
                                       broadcast_error, tx_hash, unassigned)
         /\ calls' = (IF deser_ok /\ spv_client_
                      THEN {"spv.BroadcastTransaction"} ELSE {})
    /\ events' = <<>>
    /\ UNCHANGED <<sdkVars, spvVars, walletVars, ptrVars, chainVars>>

\* the balance, UTXO and history view
InitView == InitRPC /\ spv_client_ \in BOOLEAN /\ rpc_wallet_ \in BOOLEAN

NextView ==
    \/ NewBlock
    \/ WalletReceive
    \/ RPC_GetUTXOs
    \/ RPC_GetBalance
    \/ RPC_GetHistory
    \/ RPC_SendTransaction

SpecView == InitView /\ [][NextView]_vars

\* the header sync request
InitSync == InitRPC /\ spv_client_ \in BOOLEAN /\ rpc_wallet_ \in BOOLEAN

NextSync == NewBlock \/ RPC_Sync

SpecSync == InitSync /\ [][NextSync]_vars

\* ======================================================================
\* MobileSDK
\* ======================================================================
\* An address is known by its first four characters and its length.
Addresses ==
    {[prefix |-> "int1", size |-> 42], [prefix |-> "int1", size |-> 41],
     [prefix |-> "bc1q", size |-> 42]}

\* MobileSDK::ValidateAddress
ValidateAddress(address) ==
    IF address.size < 4 \/ address.prefix # "int1"
    THEN FALSE
    ELSE address.size >= 42 /\ address.size <= 62

NotOpen == [ok |-> FALSE, error |-> "Wallet not open"]

AlreadyOpen == [ok |-> FALSE, error |-> "Wallet already open"]

\* what an SDK operation leaves alone unless it says otherwise
SdkQuiet == UNCHANGED <<sdkVars, spvVars, walletVars, ptrVars, chainVars>>

\* MobileSDK::MobileSDK: the SPV client exists iff enable_spv; rpc_ is built
\* from the wallet_ pointer as it is then, which is null
Init ==
    /\ enable_spv \in BOOLEAN
    /\ spv_client_ = enable_spv
    /\ rpc_wallet_ = FALSE
    /\ sdk_live = TRUE
    /\ wallet_ = FALSE
    /\ wallet_open_ = FALSE
    /\ tx_callback_ = FALSE
    /\ best_height = 0
    /\ spv_filter = FALSE
    /\ bloom = Build(0)
    /\ spv_syncing = FALSE
    /\ sync_state = "Idle"
    /\ wanted = {}
    /\ chain_headers = GenesisChain
    /\ chain_tip = GenesisHash
    /\ orphans = <<>>
    /\ wallet_utxos = <<>>
    /\ wallet_history = <<>>
    /\ resp = [op |-> "init"]
    /\ calls = {}
    /\ events = <<>>

\* MobileSDK::UpdateBloomFilter, as CreateWallet and OpenWallet reach it
\* (wallet_open_ already set): the SPV client gets a fresh filter
UpdateBloomFilterCalls == IF enable_spv /\ spv_client_ THEN {"spv.SetBloomFilter"} ELSE {}

\* a caller buffer the call did not write to
Untouched == [written |-> FALSE, chars |-> "", nuls |-> 0]

\* the first n characters of s
Prefix(s, n) == IF Len(s) > n THEN SubSeq(s, 1, n) ELSE s

\* std::strncpy(out, s, n + 1) with no terminator stored after it
CopyOutUnterminated(s, n) ==
    [written |-> TRUE, chars |-> Prefix(s, n + 1),
     nuls |-> (n + 1) - Len(Prefix(s, n + 1))]

\* std::strncpy(out, s.c_str(), n); out[n] = '\0': strncpy stores n bytes, the
\* characters of s and NULs after them when s is shorter
CopyOut(s, n) ==
    [written |-> TRUE, chars |-> Prefix(s, n), nuls |-> (n - Len(Prefix(s, n))) + 1]

\* What the caller of an SDK operation makes of its result r. The C++ caller
\* (api.c false) reads r itself; a C function returns 0 on success and -1 on
\* failure, unless it is void, and copies r.value into the caller's buffer of
\* api.size + 1 bytes when it has one (api.size > 0).
Reply(api, r) ==
    IF ~api.c THEN [op |-> api.fn] @@ r
    ELSE LET base == [op |-> api.fn, args |-> api.args,
                      out |-> IF api.size > 0 /\ r.ok THEN CopyOut(r.value, api.size)
                              ELSE Untouched]
         IN  IF api.void THEN base
             ELSE base @@ [ret |-> IF r.ok THEN 0 ELSE -1]

\* MobileSDK::CreateWallet; api is the caller, see Reply
CreateWalletAs(mnemonics, api) ==
    /\ \E mnemonic \in mnemonics :
         IF wallet_open_
         THEN /\ resp' = Reply(api, AlreadyOpen)
              /\ calls' = {}
              /\ SdkQuiet
         ELSE /\ resp' = Reply(api, [ok |-> TRUE, error |-> "",
                              value |-> IF mnemonic = ""
                                        THEN "TODO: Generate BIP39 mnemonic"
                                        ELSE mnemonic])
              /\ wallet_' = TRUE
              /\ wallet_open_' = TRUE
              /\ wallet_utxos' = <<>>
              /\ wallet_history' = <<>>
              /\ spv_filter' = (IF enable_spv /\ spv_client_ THEN TRUE ELSE spv_filter)
              /\ \E tweak \in Tweaks :
                   bloom' = (IF enable_spv /\ spv_client_ THEN UpdateBloomFilter(tweak) ELSE bloom)
              /\ calls' = UpdateBloomFilterCalls
              /\ UNCHANGED <<enable_spv, tx_callback_, best_height, spv_syncing, sessVars, ptrVars, chainVars>>
    /\ events' = <<>>

SDK_CreateWallet ==
    CreateWalletAs({"", "abandon"}, [fn |-> "SDK.CreateWallet", c |-> FALSE])

\* OpenWallet without the check of wallet_open_
SDK_OpenWalletNoCheck ==
    /\ resp' = [op |-> "SDK.OpenWallet", ok |-> TRUE, error |-> ""]
    /\ wallet_' = TRUE
    /\ wallet_open_' = TRUE
    /\ wallet_utxos' = <<>>
    /\ wallet_history' = <<>>
    /\ spv_filter' = (IF enable_spv /\ spv_client_ THEN TRUE ELSE spv_filter)
    /\ \E tweak \in Tweaks :
         bloom' = (IF enable_spv /\ spv_client_ THEN UpdateBloomFilter(tweak) ELSE bloom)
    /\ calls' = UpdateBloomFilterCalls
    /\ UNCHANGED <<enable_spv, tx_callback_, best_height, spv_syncing, sessVars, ptrVars, chainVars>>
    /\ events' = <<>>

\* MobileSDK::OpenWallet
OpenWalletAs(api) ==
    /\ IF wallet_open_
       THEN /\ resp' = Reply(api, AlreadyOpen)
            /\ calls' = {}
            /\ SdkQuiet
       ELSE /\ resp' = Reply(api, [ok |-> TRUE, error |-> ""])
            /\ wallet_' = TRUE
            /\ wallet_open_' = TRUE
            /\ wallet_utxos' = <<>>
            /\ wallet_history' = <<>>
            /\ spv_filter' = (IF enable_spv /\ spv_client_ THEN TRUE ELSE spv_filter)
            /\ \E tweak \in Tweaks :
                 bloom' = (IF enable_spv /\ spv_client_ THEN UpdateBloomFilter(tweak) ELSE bloom)
            /\ calls' = UpdateBloomFilterCalls
            /\ UNCHANGED <<enable_spv, tx_callback_, best_height, spv_syncing, sessVars, ptrVars, chainVars>>
    /\ events' = <<>>

SDK_OpenWallet == OpenWalletAs([fn |-> "SDK.OpenWallet", c |-> FALSE])

\* the steps of CloseWallet on an open wallet with the wallet released first
CloseWalletStepsReleaseFirst(open, has_spv) ==
    IF ~open THEN <<>>
    ELSE <<"wallet_.reset", "wallet_open_ = false">> \o
         (IF has_spv THEN <<"spv.StopSync", "spv.ClearBloomFilter">> ELSE <<>>)

\* what CloseWallet does, in the order it does it
CloseWalletSteps(open, has_spv) ==
    IF ~open THEN <<>>
    ELSE (IF has_spv THEN <<"spv.StopSync", "spv.ClearBloomFilter">> ELSE <<>>) \o
         <<"wallet_.reset", "wallet_open_ = false">>

\* MobileSDK::CloseWallet; a caller that frees the SDK (api.frees) runs it as
\* the destructor's only statement, and the object is gone after it
CloseWalletAs(api) ==
    /\ resp' = Reply(api, [ok |-> TRUE, error |-> "",
                    steps |-> CloseWalletSteps(wallet_open_, spv_client_)])
    /\ sdk_live' = (sdk_live /\ ~api.frees)
    /\ IF ~wallet_open_
       THEN /\ calls' = {}
            /\ UNCHANGED <<sdkVars, spvVars, walletVars, spv_client_, rpc_wallet_,
                           chainVars>>
       ELSE /\ spv_syncing' = (IF spv_client_ THEN FALSE ELSE spv_syncing)
            /\ IF spv_client_ THEN SessionStop ELSE UNCHANGED sessVars
            /\ spv_filter' = (IF spv_client_ THEN FALSE ELSE spv_filter)
            /\ bloom' = (IF spv_client_ THEN Build(0) ELSE bloom)
            /\ calls' = (IF spv_client_ THEN {"spv.StopSync", "spv.ClearBloomFilter"} ELSE {})
            /\ wallet_' = FALSE
            /\ wallet_open_' = FALSE
            /\ wallet_utxos' = <<>>
            /\ wallet_history' = <<>>
            /\ UNCHANGED <<enable_spv, tx_callback_, best_height, spv_client_,
                           rpc_wallet_, chainVars>>
    /\ events' = <<>>

SDK_CloseWallet ==
    CloseWalletAs([fn |-> "SDK.CloseWallet", c |-> FALSE, frees |-> FALSE])

\* MobileSDK::BackupWallet
SDK_BackupWallet ==
    /\ resp' = [op |-> "SDK.BackupWallet"] @@
               (IF ~wallet_open_ THEN NotOpen
                ELSE [ok |-> TRUE, error |-> "", value |-> <<>>])
    /\ calls' = {}
    /\ events' = <<>>
    /\ SdkQuiet

\* MobileSDK::GetNewAddress
GetNewAddressAs(api) ==
    /\ resp' = Reply(api, IF ~wallet_open_ THEN NotOpen
                   ELSE [ok |-> TRUE, error |-> "", value |-> "int1q..."])
    /\ calls' = (IF wallet_open_ /\ enable_spv /\ spv_client_
                 THEN {"spv.AddWatchAddress"} ELSE {})
    /\ bloom' = (IF wallet_open_ /\ enable_spv /\ spv_client_
                 THEN AddWatchAddress(bloom, PlaceholderItem) ELSE bloom)
    /\ events' = <<>>
    /\ UNCHANGED <<sdkVars, best_height, spv_filter, spv_syncing, sessVars, walletVars,
                   ptrVars, chainVars>>

SDK_GetNewAddress == GetNewAddressAs([fn |-> "SDK.GetNewAddress", c |-> FALSE])

\* MobileSDK::GetCurrentAddress
SDK_GetCurrentAddress ==
    /\ resp' = [op |-> "SDK.GetCurrentAddress"] @@
               (IF ~wallet_open_ THEN NotOpen
                ELSE [ok |-> TRUE, error |-> "", value |-> "int1q..."])
    /\ calls' = {}
    /\ events' = <<>>
    /\ SdkQuiet

\* MobileSDK::GetBalance: rpc_->GetBalance on the handler built in the constructor
SDK_GetBalance ==
    /\ \E balance_ok \in BOOLEAN, unconf_ok \in BOOLEAN :
         resp' = [op |-> "SDK.GetBalance"] @@
                 (IF ~wallet_open_ THEN NotOpen
                  ELSE GetBalance(rpc_wallet_, balance_ok, unconf_ok,
                                  WalletGetBalance, WalletGetUnconfirmedBalance))
    /\ calls' = (IF wallet_open_ THEN {"rpc.GetBalance"} ELSE {})
    /\ events' = <<>>
    /\ SdkQuiet

\* MobileSDK::GetUTXOs
SDK_GetUTXOs ==
    /\ \E m \in 0..2 :
         resp' = [op |-> "SDK.GetUTXOs", min_confirmations |-> m] @@
                 (IF ~wallet_open_ THEN NotOpen
                  ELSE [error |-> ""] @@
                       GetUTXOs(rpc_wallet_, TRUE, wallet_utxos, spv_client_,
                                best_height, m))
    /\ calls' = (IF wallet_open_ THEN {"rpc.GetUTXOs"} ELSE {})
    /\ events' = <<>>
    /\ SdkQuiet

\* MobileSDK::RestoreWallet
SDK_RestoreWallet ==
    /\ resp' = [op |-> "SDK.RestoreWallet"] @@
               (IF wallet_open_ THEN AlreadyOpen ELSE [ok |-> TRUE, error |-> ""])
    /\ calls' = {}
    /\ events' = <<>>
    /\ SdkQuiet

\* CreateTransaction without the check of wallet_open_
CreateTransactionNoOpenCheck(open, to_address, amount_ints, fee_rate, utxos) ==
    IF ~ValidateAddress(to_address)
    THEN [ok |-> FALSE, error |-> "Invalid recipient address"]
    ELSE IF utxos.total_amount < amount_ints
    THEN [ok |-> FALSE, error |-> "Insufficient balance"]
    ELSE [ok |-> TRUE, error |-> "",
          fee_rate |-> IF fee_rate = 0 THEN EstimateFee(250, 6).fee_rate ELSE fee_rate]

\* CreateTransaction validating the address before it looks at wallet_open_
CreateTransactionAddressFirst(open, to_address, amount_ints, fee_rate, utxos) ==
    IF ~ValidateAddress(to_address)
    THEN [ok |-> FALSE, error |-> "Invalid recipient address"]
    ELSE IF ~open THEN NotOpen
    ELSE IF utxos.total_amount < amount_ints
    THEN [ok |-> FALSE, error |-> "Insufficient balance"]
    ELSE [ok |-> TRUE, error |-> "",
          fee_rate |-> IF fee_rate = 0 THEN EstimateFee(250, 6).fee_rate ELSE fee_rate]

\* MobileSDK::CreateTransaction, given the answer of its GetUTXOs(1) call
CreateTransaction(open, to_address, amount_ints, fee_rate, utxos) ==
    IF ~open THEN NotOpen
    ELSE IF ~ValidateAddress(to_address)
    THEN [ok |-> FALSE, error |-> "Invalid recipient address"]
    ELSE IF utxos.total_amount < amount_ints
    THEN [ok |-> FALSE, error |-> "Insufficient balance"]
    ELSE [ok |-> TRUE, error |-> "",
          fee_rate |-> IF fee_rate = 0 THEN EstimateFee(250, 6).fee_rate ELSE fee_rate]

SDK_CreateTransaction ==
    /\ \E to_address \in Addresses, amount_ints \in 0..2, fee_rate \in {0, 1000} :
         /\ resp' = [op |-> "SDK.CreateTransaction", to_address |-> to_address,
                     amount_ints |-> amount_ints, requested_fee_rate |-> fee_rate] @@
                    CreateTransaction(wallet_open_, to_address, amount_ints, fee_rate,
                                      GetUTXOs(rpc_wallet_, TRUE, wallet_utxos,
                                               spv_client_, best_height, 1))
         /\ calls' = (IF wallet_open_ /\ ValidateAddress(to_address)
                      THEN {"rpc.GetUTXOs"} ELSE {})
                     \cup (IF resp'.ok /\ fee_rate = 0 THEN {"rpc.EstimateFee"} ELSE {})
    /\ events' = <<>>
    /\ SdkQuiet

\* SendTransaction delivering the PENDING event whatever the RPC answers
SDK_SendTransactionEager ==
    /\ \E tx_hash \in 1..2, deser_ok \in BOOLEAN, broadcast_ok \in BOOLEAN :
         \E tx_error \in ErrorsOf(deser_ok, DeserializeErrors),
            broadcast_error \in ErrorsOf(broadcast_ok, BroadcastErrors),
            unassigned \in (IF deser_ok THEN {0} ELSE UnassignedHashes) :
         LET r == SendTransaction(spv_client_, deser_ok, tx_error, broadcast_ok,
                                  broadcast_error, tx_hash, unassigned) IN
         IF ~wallet_open_
         THEN /\ resp' = [op |-> "SDK.SendTransaction"] @@ NotOpen
              /\ calls' = {}
              /\ events' = <<>>
         ELSE /\ resp' = [op |-> "SDK.SendTransaction"] @@
                         (IF ~r.accepted
                          THEN [ok |-> FALSE, error |-> "Transaction rejected: " \o r.error]
                          ELSE [ok |-> TRUE, error |-> "", value |-> r.tx_hash])
                         @@ [accepted |-> r.accepted]
              /\ calls' = {"rpc.SendTransaction"}
              /\ events' = (IF tx_callback_
                            THEN <<[type |-> "PENDING", tx_hash |-> r.tx_hash,
                                    amount_ints |-> 0, confirmations |-> 0]>>
                            ELSE <<>>)
    /\ SdkQuiet

\* MobileSDK::SendTransaction
SDK_SendTransaction ==
    /\ \E tx_hash \in 1..2, deser_ok \in BOOLEAN, broadcast_ok \in BOOLEAN :
         \E tx_error \in ErrorsOf(deser_ok, DeserializeErrors),
            broadcast_error \in ErrorsOf(broadcast_ok, BroadcastErrors),
            unassigned \in (IF deser_ok THEN {0} ELSE UnassignedHashes) :
         LET r == SendTransaction(spv_client_, deser_ok, tx_error, broadcast_ok,
                                  broadcast_error, tx_hash, unassigned) IN
         IF ~wallet_open_
         THEN /\ resp' = [op |-> "SDK.SendTransaction"] @@ NotOpen
              /\ calls' = {}
              /\ events' = <<>>
         ELSE /\ resp' = [op |-> "SDK.SendTransaction"] @@
                         (IF ~r.accepted
                          THEN [ok |-> FALSE, error |-> "Transaction rejected: " \o r.error]
                          ELSE [ok |-> TRUE, error |-> "", value |-> r.tx_hash])
                         @@ [accepted |-> r.accepted]
              /\ calls' = {"rpc.SendTransaction"} \cup
                          (IF deser_ok /\ spv_client_
                           THEN {"spv.BroadcastTransaction"} ELSE {})
              /\ events' = (IF r.accepted /\ tx_callback_
                            THEN <<[type |-> "PENDING", tx_hash |-> r.tx_hash,
                                    amount_ints |-> 0, confirmations |-> 0]>>
                            ELSE <<>>)
    /\ SdkQuiet

\* MobileSDK::GetTransactionHistory: request.page = offset / limit; with
\* limit = 0 the division is undefined: it traps or yields 0, as the target's
\* divide does
GetTransactionHistoryOutcomes(open, limit, offset) ==
    IF ~open THEN {NotOpen}
    ELSE IF limit = 0
    THEN {Crashed} \cup
         {[error |-> ""] @@ r :
            r \in GetHistoryOutcomes(spv_client_, rpc_wallet_, TRUE, wallet_history,
                                     best_height, 0, 0)}
    ELSE {[error |-> ""] @@ r :
            r \in GetHistoryOutcomes(spv_client_, rpc_wallet_, TRUE, wallet_history,
                                     best_height, offset \div limit, limit)}

SDK_GetTransactionHistory ==
    /\ \E limit \in 0..2, offset \in 0..3 :
         \E r \in GetTransactionHistoryOutcomes(wallet_open_, limit, offset) :
           resp' = [op |-> "SDK.GetTransactionHistory", limit |-> limit,
                    offset |-> offset] @@ r
    /\ calls' = (IF wallet_open_ /\ resp'.ok THEN {"rpc.GetHistory"} ELSE {})
    /\ events' = <<>>
    /\ SdkQuiet

\* the first entry of a page with the hash asked for, as the search loop of
\* MobileSDK::GetTransaction finds it
RECURSIVE FindEntry(_, _)
FindEntry(entries, tx_hash) ==
    IF entries = <<>> THEN [ok |-> FALSE, error |-> "Transaction not found"]
    ELSE IF entries[1].tx_hash = tx_hash
    THEN [ok |-> TRUE, error |-> "", value |-> entries[1]]
    ELSE FindEntry(Tail(entries), tx_hash)

\* MobileSDK::GetTransaction: a search of GetTransactionHistory(100, 0)
SDK_GetTransaction ==
    /\ \E tx_hash \in 1..(MaxTxs + 1) :
         \E r \in GetTransactionHistoryOutcomes(wallet_open_, 100, 0) :
           resp' = [op |-> "SDK.GetTransaction", tx_hash |-> tx_hash] @@
                   (IF ~r.ok THEN r ELSE FindEntry(r.entries, tx_hash))
    /\ calls' = (IF wallet_open_ THEN {"rpc.GetHistory"} ELSE {})
    /\ events' = <<>>
    /\ SdkQuiet

\* MobileSDK::StartSync: start_ok is spv_client_->StartSync().IsOk()
StartSyncAs(api) ==
    /\ \E start_ok \in BOOLEAN :
         IF ~enable_spv \/ ~spv_client_
         THEN /\ resp' = Reply(api, [ok |-> FALSE, error |-> "SPV not enabled"])
              /\ calls' = {}
              /\ UNCHANGED <<spv_syncing, sessVars>>
         ELSE /\ resp' = Reply(api, [ok |-> start_ok,
                              error |-> IF start_ok THEN "" ELSE "spv"])
              /\ calls' = {"spv.StartSync"}
              /\ spv_syncing' = (IF start_ok THEN TRUE ELSE spv_syncing)
              /\ IF start_ok THEN SessionStart ELSE UNCHANGED sessVars
    /\ events' = <<>>
    /\ UNCHANGED <<sdkVars, best_height, spv_filter, bloom, walletVars, ptrVars, chainVars>>

SDK_StartSync == StartSyncAs([fn |-> "SDK.StartSync", c |-> FALSE])

\* StopSync returning before it reaches the SPV client
SDK_StopSyncNoCall ==
    /\ resp' = [op |-> "SDK.StopSync", ok |-> TRUE, error |-> ""]
    /\ calls' = {}
    /\ events' = <<>>
    /\ SdkQuiet

\* MobileSDK::StopSync
StopSyncAs(api) ==
    /\ resp' = Reply(api, [ok |-> TRUE, error |-> ""])
    /\ IF ~enable_spv \/ ~spv_client_
       THEN calls' = {} /\ UNCHANGED <<spv_syncing, sessVars>>
       ELSE calls' = {"spv.StopSync"} /\ spv_syncing' = FALSE /\ SessionStop
    /\ events' = <<>>
    /\ UNCHANGED <<sdkVars, best_height, spv_filter, bloom, walletVars, ptrVars, chainVars>>

SDK_StopSync == StopSyncAs([fn |-> "SDK.StopSync", c |-> FALSE])

\* MobileSDK::IsWalletOpen
IsWalletOpen == wallet_open_

\* MobileSDK::IsSyncing
IsSyncing == IF ~enable_spv \/ ~spv_client_ THEN FALSE ELSE spv_syncing

SDK_IsSyncing ==
    /\ resp' = [op |-> "SDK.IsSyncing", value |-> IsSyncing]
    /\ calls' = (IF ~enable_spv \/ ~spv_client_ THEN {} ELSE {"spv.IsSyncing"})
    /\ events' = <<>>
    /\ SdkQuiet

\* the progress the SPV client reports, in percent
Progresses == {0, 50, 100}

\* MobileSDK::GetSyncProgress: spv_progress is spv_client_->GetSyncProgress()
GetSyncProgress(spv_on, best, spv_progress, syncing) ==
    IF ~spv_on
    THEN [current_height |-> 0, target_height |-> 0, progress |-> 0, is_syncing |-> FALSE]
    ELSE [current_height |-> best, target_height |-> best, progress |-> spv_progress,
          is_syncing |-> syncing]

SDK_GetSyncProgress ==
    /\ \E spv_progress \in Progresses :
         resp' = [op |-> "SDK.GetSyncProgress"] @@
                 GetSyncProgress(enable_spv /\ spv_client_, best_height, spv_progress,
                                 spv_syncing)
    /\ calls' = (IF ~enable_spv \/ ~spv_client_ THEN {}
                 ELSE {"spv.GetBestHeight", "spv.GetSyncProgress", "spv.IsSyncing"})
    /\ events' = <<>>
    /\ SdkQuiet

\* MobileRPC::GetNetworkStatus calls spv_client_ unconditionally: through a
\* null pointer the call is undefined, it traps or reads any status
GetNetworkStatusOutcomes(has_spv, best, spv_progress, syncing) ==
    IF has_spv
    THEN {[ok |-> TRUE, crashed |-> FALSE, block_height |-> best,
           is_syncing |-> syncing, sync_progress |-> spv_progress]}
    ELSE {Crashed} \cup
         {[ok |-> TRUE, crashed |-> FALSE, block_height |-> g, is_syncing |-> b,
           sync_progress |-> q] : g \in 0..MaxHeight, b \in BOOLEAN, q \in Progresses}

\* MobileSDK::GetNetworkStatus: rpc_->GetNetworkStatus(), whatever the wallet
\* and the SPV setting; a trap happens at the first dereference, the call of
\* GetBestHeight
SDK_GetNetworkStatus ==
    /\ \E spv_progress \in Progresses :
         \E r \in GetNetworkStatusOutcomes(spv_client_, best_height, spv_progress,
                                          spv_syncing) :
            /\ resp' = [op |-> "SDK.GetNetworkStatus", error |-> ""] @@ r
            /\ calls' = (IF r.crashed
                         THEN {"rpc.GetNetworkStatus", "spv.GetBestHeight"}
                         ELSE {"rpc.GetNetworkStatus", "spv.GetBestHeight",
                               "spv.GetBestHash", "spv.IsSyncing",
                               "spv.GetSyncProgress", "spv.GetPeerCount"})
    /\ events' = <<>>
    /\ SdkQuiet

\* MobileSDK::SetTransactionCallback
SDK_SetTransactionCallback ==
    /\ \E callback \in BOOLEAN : tx_callback_' = callback
    /\ resp' = [op |-> "SDK.SetTransactionCallback", ok |-> TRUE, error |-> ""]
    /\ calls' = {}
    /\ events' = <<>>
    /\ UNCHANGED <<enable_spv, wallet_, wallet_open_, spvVars, walletVars, ptrVars, chainVars>>

Next ==
    \/ SDK_CreateWallet
    \/ SDK_OpenWallet
    \/ SDK_CloseWallet
    \/ SDK_BackupWallet
    \/ SDK_RestoreWallet
    \/ SDK_GetNewAddress
    \/ SDK_GetCurrentAddress
    \/ SDK_GetBalance
    \/ SDK_GetUTXOs
    \/ SDK_CreateTransaction
    \/ SDK_SendTransaction
    \/ SDK_GetTransactionHistory
    \/ SDK_GetTransaction
    \/ SDK_EstimateFee
    \/ SDK_StartSync
    \/ SDK_StopSync
    \/ SDK_SetTransactionCallback
    \/ SDK_IsSyncing
    \/ SDK_GetSyncProgress
    \/ SDK_GetNetworkStatus
    \/ WalletReceive

Spec == Init /\ [][Next]_vars

\* ======================================================================
\* Text: std::string values are strings, decimal numbers are uint64_t words
\* ======================================================================
Digits == "0123456789"

DigitChar(d) == SubSeq(Digits, d + 1, d + 1)

IsDigit(c) == \E d \in 0..9 : c = DigitChar(d)

DigitVal(c) == CHOOSE d \in 0..9 : c = DigitChar(d)

\* the greatest uint64_t
MaxU64 == <<Limb - 1, Limb - 1, Limb - 1, Limb - 1>>

\* x % d for a divisor below 2^15
ModSmall(x, d) == ((((((x[4] % d) * Limb + x[3]) % d) * Limb + x[2]) % d) * Limb + x[1]) % d

\* x / 1000000 and x % 1000000 (1000000 = 1000 * 1000)
DivMillion(x) == DivSmall(DivSmall(x, 1000), 1000)

ModMillion(x) == Sub64(x, Mul64(DivMillion(x), U64(1000000)))

\* operator<<(uint64_t): the decimal digits, no leading zero
RECURSIVE Dec(_)
Dec(x) ==
    IF DivSmall(x, 10) = Zero64 THEN DigitChar(x[1])
    ELSE Dec(DivSmall(x, 10)) \o DigitChar(ModSmall(x, 10))

\* std::setfill('0') << std::setw(w): zeros on the left up to width w
RECURSIVE SetW(_, _)
SetW(s, w) == IF Len(s) >= w THEN s ELSE SetW("0" \o s, w)

\* std::string::find(c): the 0-based position of the first c, or npos
\* (written -1)
RECURSIVE FindFrom(_, _, _)
FindFrom(s, c, i) ==
    IF i > Len(s) THEN 0 - 1
    ELSE IF SubSeq(s, i, i) = c THEN i - 1
    ELSE FindFrom(s, c, i + 1)

Find(s, c) == FindFrom(s, c, 1)

\* std::string::substr(pos) for pos <= size
SubstrFrom(s, pos) == SubSeq(s, pos + 1, Len(s))

\* std::string::substr(pos, count) for pos <= size: count is cut at the end
Substr(s, pos, count) ==
    SubSeq(s, pos + 1, IF pos + count > Len(s) THEN Len(s) ELSE pos + count)

\* the digits std::stoull reads, folded into v; overflow is ERANGE
RECURSIVE ReadDigits(_, _, _)
ReadDigits(s, v, any) ==
    IF s = "" \/ ~IsDigit(Head(s)) THEN [any |-> any, overflow |-> FALSE, value |-> v]
    ELSE LET d == DigitVal(Head(s))
             q == DivSmall(MaxU64, 10)
             r == ModSmall(MaxU64, 10)
         IN  IF Lt64(q, v) \/ (v = q /\ d > r)
             THEN [any |-> TRUE, overflow |-> TRUE, value |-> MaxU64]
             ELSE ReadDigits(Tail(s), Add64(Mul64(v, U64(10)), U64(d)), TRUE)

\* the vertical tab, character 11
VerticalTab == ""

\* std::isspace in the "C" locale: space, \t, \n, \v, \f, \r
IsSpace(c) == c \in {" ", "\t", "\n", VerticalTab, "\f", "\r"}

RECURSIVE SkipSpace(_)
SkipSpace(s) == IF s # "" /\ IsSpace(Head(s)) THEN SkipSpace(Tail(s)) ELSE s

\* std::stoull(s): leading whitespace, an optional sign, then digits; what follows
\* the digits is ignored; no digit throws std::invalid_argument, a value over
\* 2^64-1 throws std::out_of_range; a minus sign negates modulo 2^64
Stoull(s) ==
    LET t == SkipSpace(s)
        signed == t # "" /\ Head(t) \in {"+", "-"}
        r == ReadDigits(IF signed THEN Tail(t) ELSE t, Zero64, FALSE)
    IN  IF ~r.any \/ r.overflow THEN [ok |-> FALSE, value |-> Zero64]
        ELSE [ok |-> TRUE,
              value |-> IF signed /\ Head(t) = "-" THEN Sub64(Zero64, r.value)
                        ELSE r.value]

\* ======================================================================
\* MobileSDK: amounts as text
\* ======================================================================
\* FormatINTS with the fraction printed at its natural width
FormatINTSNoPad(ints) ==
    Dec(DivMillion(ints)) \o "." \o Dec(ModMillion(ints)) \o " INT"

\* MobileSDK::FormatINTS
FormatINTS(ints) ==
    Dec(DivMillion(ints)) \o "." \o SetW(Dec(ModMillion(ints)), 6) \o " INT"

InvalidAmount == [ok |-> FALSE, error |-> "Invalid amount format", value |-> Zero64]

\* "Pad fraction to 6 digits"
RECURSIVE PadRight(_)
PadRight(frac_part) == IF Len(frac_part) < 6 THEN PadRight(frac_part \o "0") ELSE frac_part

\* MobileSDK::ParseINTAmount
ParseINTAmount(amount_str) ==
    LET dot_pos == Find(amount_str, ".")
    IN  IF dot_pos = 0 - 1
        THEN LET r == Stoull(amount_str)
             IN  IF r.ok THEN [ok |-> TRUE, error |-> "", value |-> r.value]
                 ELSE InvalidAmount
        ELSE LET int_part == Substr(amount_str, 0, dot_pos)
                 padded == PadRight(SubstrFrom(amount_str, dot_pos + 1))
                 frac_part == IF Len(padded) > 6 THEN Substr(padded, 0, 6) ELSE padded
                 i == Stoull(int_part)
                 f == Stoull(frac_part)
             IN  IF i.ok /\ f.ok
                 THEN [ok |-> TRUE, error |-> "",
                       value |-> Add64(Mul64(i.value, U64(1000000)), f.value)]
                 ELSE InvalidAmount


\* ======================================================================
\* MobileSDK: payment URIs
\* ======================================================================
\* the address as ValidateAddress looks at it: address.substr(0, 4) and
\* address.size()
AddressOf(s) == [prefix |-> Substr(s, 0, 4), size |-> Len(s)]

\* MobileSDK::GeneratePaymentURI
GeneratePaymentURI(address, amount_ints, label, message) ==
    LET has_amount == amount_ints # Zero64
        has_label == label # ""
    IN  "intcoin:" \o address
        \o (IF has_amount THEN "?amount=" \o FormatINTS(amount_ints) ELSE "")
        \o (IF has_label
            THEN (IF has_amount THEN "&" ELSE "?") \o "label=" \o label
            ELSE "")
        \o (IF message # ""
            THEN (IF has_amount \/ has_label THEN "&" ELSE "?") \o "message=" \o message
            ELSE "")

\* MobileSDK::ParsePaymentURI: the parameters after '?' are not read
ParsePaymentURI(uri) ==
    IF Substr(uri, 0, 8) # "intcoin:"
    THEN [ok |-> FALSE, error |-> "Invalid URI scheme"]
    ELSE LET param_start == Find(uri, "?")
             \* npos - 8 is larger than any string: substr runs to the end
             address == IF param_start = 0 - 1 THEN SubstrFrom(uri, 8)
                        ELSE Substr(uri, 8, param_start - 8)
         IN  IF ~ValidateAddress(AddressOf(address))
             THEN [ok |-> FALSE, error |-> "Invalid address in URI"]
             ELSE [ok |-> TRUE, error |-> "", address |-> address,
                   amount_ints |-> Zero64, label |-> "", message |-> ""]

\* ======================================================================
\* The text utilities on their own (static members of MobileSDK)
\* ======================================================================
\* the amounts in INTS formatted (uint64_t)
Amounts ==
    {Zero64, One64, U64(10), U64(999999), U64(1000000), U64(1000001), U64(1500000),
     U64(123456789), U64(2147483647), <<0, 0, 1, 0>>, <<0, 0, 0, 1>>,
     Sub64(MaxU64, One64), MaxU64}

\* the amount strings parsed
AmountStrings ==
    {"1.5", "1500000", "", ".", "abc", "1.", ".5", "-1", " 2.25", "+3", "1.x",
     "\t2", " \n 7", "1.\t5", "\r\f", VerticalTab \o "2", "1." \o VerticalTab \o "5",
     "1.5000009", "0.000001", "1.500000 INT", "18446744073709551615",
     "18446744073709551616", "18446744073709.551615", "18446744073710.0"}
    \cup {FormatINTS(x) : x \in Amounts}

\* the addresses put into payment URIs
AddressStrings ==
    {"int1qxy2kgdygjrsqtzq2n0yrf2493p83kkfjhx0wl", "int1qqqqqqqqqqqqqqqqqqqqqqqqqqqqqqqqqqqqqqqqqqqqqqqqqqqqqqqqqq",
     "int1q...",
     "bc1qaaaaaaaaaaaaaaaaaaaaaaaaaaaaaaaaaaaaaa"}

Labels == {"", "Coffee Shop", "a&b"}

Messages == {"", "Payment for order 123"}

\* the URIs parsed
PaymentURIs ==
    {GeneratePaymentURI(a, x, l, m) :
        a \in AddressStrings, x \in {Zero64, U64(1500000), MaxU64},
        l \in Labels, m \in Messages}
    \cup {"", "int", "intcoin:", "bitcoin:int1qxy2kgdygjrsqtzq2n0yrf2493p83kkfjhx0wl",
          "intcoin:int1qxy2kgdygjrsqtzq2n0yrf2493p83kkfjhx0wl?amount=10.5&label=Coffee%20Shop&message=Latte"}

SDK_FormatINTS ==
    /\ \E ints \in Amounts :
         resp' = [op |-> "SDK.FormatINTS", ints |-> ints, value |-> FormatINTS(ints)]
    /\ calls' = {}
    /\ events' = <<>>
    /\ SdkQuiet

SDK_ParseINTAmount ==
    /\ \E amount_str \in AmountStrings :
         resp' = [op |-> "SDK.ParseINTAmount", amount_str |-> amount_str]
                 @@ ParseINTAmount(amount_str)
    /\ calls' = {}
    /\ events' = <<>>
    /\ SdkQuiet

SDK_GeneratePaymentURI ==
    /\ \E address \in AddressStrings, amount_ints \in Amounts,
          label \in Labels, message \in Messages :
         resp' = [op |-> "SDK.GeneratePaymentURI", address |-> address,
                  amount_ints |-> amount_ints, label |-> label, message |-> message,
                  value |-> GeneratePaymentURI(address, amount_ints, label, message)]
    /\ calls' = {}
    /\ events' = <<>>
    /\ SdkQuiet

SDK_ParsePaymentURI ==
    /\ \E uri \in PaymentURIs :
         resp' = [op |-> "SDK.ParsePaymentURI", uri |-> uri] @@ ParsePaymentURI(uri)
    /\ calls' = {}
    /\ events' = <<>>
    /\ SdkQuiet

InitText == InitRPC /\ spv_client_ = TRUE /\ rpc_wallet_ = FALSE

NextText ==
    \/ SDK_FormatINTS
    \/ SDK_ParseINTAmount
    \/ SDK_GeneratePaymentURI
    \/ SDK_ParsePaymentURI

SpecText == InitText /\ [][NextText]_vars

\* ======================================================================
\* The C API
\* An argument that is a pointer is known by whether it is non-null. A caller
\* buffer holds chars followed by nuls NUL bytes once it is written.
\* ======================================================================
\* the handles a caller passes for sdk: null, or the handle intcoin_sdk_create
\* gave it, until intcoin_sdk_destroy has freed the object behind it
Handles == IF sdk_live THEN BOOLEAN ELSE {FALSE}

\* no argument is a null pointer
AllSet(args) == \A a \in DOMAIN args : args[a]

\* the early return of a function that returns a value
ReturnEarly(fn, args, ret) ==
    /\ resp' = [op |-> fn, args |-> args, ret |-> ret, out |-> Untouched]
    /\ calls' = {}
    /\ events' = <<>>
    /\ SdkQuiet

\* the early return of a void function
ReturnEarlyVoid(fn, args) ==
    /\ resp' = [op |-> fn, args |-> args, out |-> Untouched]
    /\ calls' = {}
    /\ events' = <<>>
    /\ SdkQuiet

intcoin_sdk_create_wallet ==
    \E sdk \in Handles, password \in BOOLEAN, mnemonic_out \in BOOLEAN :
       LET args == [sdk |-> sdk, password |-> password, mnemonic_out |-> mnemonic_out]
       IN  IF ~AllSet(args)
           THEN ReturnEarly("intcoin_sdk_create_wallet", args, -1)
           ELSE CreateWalletAs({""},
                   [fn |-> "intcoin_sdk_create_wallet", c |-> TRUE, args |-> args,
                    size |-> 255, void |-> FALSE])

intcoin_sdk_open_wallet ==
    \E sdk \in Handles, password \in BOOLEAN :
       LET args == [sdk |-> sdk, password |-> password]
       IN  IF ~AllSet(args)
           THEN ReturnEarly("intcoin_sdk_open_wallet", args, -1)
           ELSE OpenWalletAs(
                   [fn |-> "intcoin_sdk_open_wallet", c |-> TRUE, args |-> args,
                    size |-> 0, void |-> FALSE])

intcoin_sdk_close_wallet ==
    \E sdk \in Handles :
       LET args == [sdk |-> sdk]
       IN  IF ~AllSet(args)
           THEN ReturnEarlyVoid("intcoin_sdk_close_wallet", args)
           ELSE CloseWalletAs(
                   [fn |-> "intcoin_sdk_close_wallet", c |-> TRUE, args |-> args,
                    size |-> 0, void |-> TRUE, frees |-> FALSE])

\* delete of the MobileSDK: its destructor calls CloseWallet(); a null handle
\* is left alone
intcoin_sdk_destroy ==
    \E sdk \in Handles :
       LET args == [sdk |-> sdk]
       IN  IF ~AllSet(args)
           THEN ReturnEarlyVoid("intcoin_sdk_destroy", args)
           ELSE CloseWalletAs(
                   [fn |-> "intcoin_sdk_destroy", c |-> TRUE, args |-> args,
                    size |-> 0, void |-> TRUE, frees |-> TRUE])

intcoin_sdk_get_new_address ==
    \E sdk \in Handles, address_out \in BOOLEAN :
       LET args == [sdk |-> sdk, address_out |-> address_out]
       IN  IF ~AllSet(args)
           THEN ReturnEarly("intcoin_sdk_get_new_address", args, -1)
           ELSE GetNewAddressAs(
                   [fn |-> "intcoin_sdk_get_new_address", c |-> TRUE, args |-> args,
                    size |-> 63, void |-> FALSE])

\* the integer outputs are a list: empty while the pointer was not written to
intcoin_sdk_get_balance ==
    \E sdk \in Handles, confirmed_out \in BOOLEAN, unconfirmed_out \in BOOLEAN,
       balance_ok \in BOOLEAN, unconf_ok \in BOOLEAN :
       LET args == [sdk |-> sdk, confirmed_out |-> confirmed_out,
                    unconfirmed_out |-> unconfirmed_out]
           r == IF ~wallet_open_ THEN NotOpen
                ELSE GetBalance(rpc_wallet_, balance_ok, unconf_ok,
                                WalletGetBalance, WalletGetUnconfirmedBalance)
       IN  IF ~AllSet(args)
           THEN ReturnEarly("intcoin_sdk_get_balance", args, -1)
           ELSE /\ resp' = [op |-> "intcoin_sdk_get_balance", args |-> args,
                           ret |-> IF r.ok THEN 0 ELSE -1, out |-> Untouched,
                           confirmed_out |->
                              IF r.ok THEN <<r.confirmed_balance>> ELSE <<>>,
                           unconfirmed_out |->
                              IF r.ok THEN <<r.unconfirmed_balance>> ELSE <<>>]
                /\ calls' = (IF wallet_open_ THEN {"rpc.GetBalance"} ELSE {})
                /\ events' = <<>>
                /\ SdkQuiet

\* CreateTransaction(to_address, amount_ints, 0) and then SendTransaction
intcoin_sdk_send_transaction ==
    \E sdk \in Handles, to_address \in BOOLEAN, tx_hash_out \in BOOLEAN,
       address \in AddressStrings, amount_ints \in 0..1, tx_hash \in 1..2,
       deser_ok \in BOOLEAN, broadcast_ok \in BOOLEAN :
       \E tx_error \in ErrorsOf(deser_ok, DeserializeErrors),
          broadcast_error \in ErrorsOf(broadcast_ok, BroadcastErrors),
          unassigned \in (IF deser_ok THEN {0} ELSE UnassignedHashes) :
       LET args == [sdk |-> sdk, to_address |-> to_address, tx_hash_out |-> tx_hash_out]
           t == CreateTransaction(wallet_open_, AddressOf(address), amount_ints, 0,
                                  GetUTXOs(rpc_wallet_, TRUE, wallet_utxos,
                                           spv_client_, best_height, 1))
           s == SendTransaction(spv_client_, deser_ok, tx_error, broadcast_ok,
                                  broadcast_error, tx_hash, unassigned)
           sent == t.ok /\ s.accepted
       IN  IF ~AllSet(args)
           THEN ReturnEarly("intcoin_sdk_send_transaction", args, -1)
           ELSE /\ resp' = [op |-> "intcoin_sdk_send_transaction", args |-> args,
                           ret |-> IF sent THEN 0 ELSE -1, out |-> Untouched,
                           tx_hash_out |-> IF sent THEN <<s.tx_hash>> ELSE <<>>]
                /\ calls' = (IF wallet_open_ /\ ValidateAddress(AddressOf(address))
                             THEN {"rpc.GetUTXOs"} ELSE {})
                            \cup (IF t.ok THEN {"rpc.EstimateFee", "rpc.SendTransaction"}
                                  ELSE {})
                            \cup (IF t.ok /\ deser_ok /\ spv_client_
                                  THEN {"spv.BroadcastTransaction"} ELSE {})
                /\ events' = (IF sent /\ tx_callback_
                              THEN <<[type |-> "PENDING", tx_hash |-> s.tx_hash,
                                      amount_ints |-> 0, confirmations |-> 0]>>
                              ELSE <<>>)
                /\ SdkQuiet

intcoin_sdk_start_sync ==
    \E sdk \in Handles :
       LET args == [sdk |-> sdk]
       IN  IF ~AllSet(args)
           THEN ReturnEarly("intcoin_sdk_start_sync", args, -1)
           ELSE StartSyncAs(
                   [fn |-> "intcoin_sdk_start_sync", c |-> TRUE, args |-> args,
                    size |-> 0, void |-> FALSE])

intcoin_sdk_stop_sync ==
    \E sdk \in Handles :
       LET args == [sdk |-> sdk]
       IN  IF ~AllSet(args)
           THEN ReturnEarlyVoid("intcoin_sdk_stop_sync", args)
           ELSE StopSyncAs(
                   [fn |-> "intcoin_sdk_stop_sync", c |-> TRUE, args |-> args,
                    size |-> 0, void |-> TRUE])

\* the progress returned is in percent
intcoin_sdk_get_sync_progress ==
    \E sdk \in Handles, spv_progress \in Progresses :
       LET args == [sdk |-> sdk]
       IN  IF ~AllSet(args)
           THEN ReturnEarly("intcoin_sdk_get_sync_progress", args, 0)
           ELSE /\ resp' = [op |-> "intcoin_sdk_get_sync_progress", args |-> args,
                           ret |-> GetSyncProgress(enable_spv /\ spv_client_,
                                                   best_height, spv_progress,
                                                   spv_syncing).progress,
                           out |-> Untouched]
                /\ calls' = (IF ~enable_spv \/ ~spv_client_ THEN {}
                             ELSE {"spv.GetBestHeight", "spv.GetSyncProgress",
                                   "spv.IsSyncing"})
                /\ events' = <<>>
                /\ SdkQuiet

intcoin_sdk_format_ints ==
    \E out \in BOOLEAN, ints \in {Zero64, U64(1500000), MaxU64} :
       LET args == [out |-> out]
       IN  IF ~AllSet(args)
           THEN ReturnEarlyVoid("intcoin_sdk_format_ints", args)
           ELSE /\ resp' = [op |-> "intcoin_sdk_format_ints", args |-> args,
                           out |-> CopyOut(FormatINTS(ints), 31)]
                /\ calls' = {}
                /\ events' = <<>>
                /\ SdkQuiet

intcoin_sdk_validate_address ==
    \E address \in BOOLEAN, text \in AddressStrings :
       LET args == [address |-> address]
       IN  IF ~AllSet(args)
           THEN ReturnEarly("intcoin_sdk_validate_address", args, 0)
           ELSE /\ resp' = [op |-> "intcoin_sdk_validate_address", args |-> args,
                           ret |-> IF ValidateAddress(AddressOf(text)) THEN 1 ELSE 0,
                           out |-> Untouched]
                /\ calls' = {}
                /\ events' = <<>>
                /\ SdkQuiet

A64 == "aaaaaaaaaaaaaaaaaaaaaaaaaaaaaaaaaaaaaaaaaaaaaaaaaaaaaaaaaaaaaaaa"

\* an address text of 512 characters
LongText == A64 \o A64 \o A64 \o A64 \o A64 \o A64 \o A64 \o A64

\* label and message may be null: they are read as "" then
intcoin_sdk_generate_payment_uri ==
    \E address \in BOOLEAN, uri_out \in BOOLEAN,
       text \in {"int1qxy2kgdygjrsqtzq2n0yrf2493p83kkfjhx0wl", LongText},
       amount_ints \in {Zero64, U64(1500000)},
       has_label \in BOOLEAN, has_message \in BOOLEAN :
       LET args == [address |-> address, uri_out |-> uri_out]
           uri == GeneratePaymentURI(text, amount_ints,
                                     IF has_label THEN "Coffee Shop" ELSE "",
                                     IF has_message THEN "Latte" ELSE "")
       IN  IF ~AllSet(args)
           THEN ReturnEarlyVoid("intcoin_sdk_generate_payment_uri", args)
           ELSE /\ resp' = [op |-> "intcoin_sdk_generate_payment_uri", args |-> args,
                           out |-> CopyOut(uri, 511)]
                /\ calls' = {}
                /\ events' = <<>>
                /\ SdkQuiet

\* intcoin_sdk_create builds the SDK from a default SDKConfig: SPV is enabled
InitCApi == Init /\ enable_spv = TRUE

NextCApi ==
    \/ intcoin_sdk_destroy
    \/ intcoin_sdk_create_wallet
    \/ intcoin_sdk_open_wallet
    \/ intcoin_sdk_close_wallet
    \/ intcoin_sdk_get_new_address
    \/ intcoin_sdk_get_balance
    \/ intcoin_sdk_send_transaction
    \/ intcoin_sdk_start_sync
    \/ intcoin_sdk_stop_sync
    \/ intcoin_sdk_get_sync_progress
    \/ intcoin_sdk_format_ints
    \/ intcoin_sdk_validate_address
    \/ intcoin_sdk_generate_payment_uri

SpecCApi == InitCApi /\ [][NextCApi]_vars

\* ======================================================================
\* The sync session against its peers
\* Peers may send any header batch and any filtered block at any time; a
\* block header is known by its height on the one chain the peers serve.
\* ======================================================================
\* the size of a full header batch
BatchSize == 2

\* HeaderChain.tryAppend over a batch of len headers at heights start ..
\* start+len-1 whose bad-th header (0: none) fails the proof of work: the
\* number of headers appended
Appended(tip, start, len, bad) ==
    IF start # tip + 1 THEN 0
    ELSE IF bad = 0 THEN len
    ELSE bad - 1

\* after a header batch, a session that leaves AwaitingHeaders at once for Synced
StateAfterBatchSkipping(len, appended) ==
    IF appended = len /\ len < BatchSize THEN "Synced" ELSE "AwaitingHeaders"

\* the state after a header batch: a full batch wholly accepted asks for the
\* next one, a short one wholly accepted means the peer is caught up, a
\* rejected header leaves the request to be retried
StateAfterBatch(len, appended) ==
    IF appended = len /\ len < BatchSize THEN "AwaitingFilteredBlocks" ELSE "AwaitingHeaders"

\* a filtered block taken whatever the height of its header
BlockAcceptedUnchecked(state, tip, height, proof_ok) ==
    state = "AwaitingFilteredBlocks" /\ proof_ok

\* a filtered block is taken when the session waits for blocks, the block's
\* header is already in the chain and its merkle proof verifies
BlockAccepted(state, tip, height, proof_ok) ==
    state = "AwaitingFilteredBlocks" /\ height >= 1 /\ height <= tip /\ proof_ok

\* the connection is up: request the headers after the tip
Session_Connected ==
    /\ sync_state = "Connecting"
    /\ sync_state' = "AwaitingHeaders"
    /\ wanted' = {}
    /\ resp' = [op |-> "Session.Connected", from |-> best_height + 1]
    /\ calls' = {}
    /\ events' = <<>>
    /\ UNCHANGED <<sdkVars, best_height, spv_filter, bloom, spv_syncing, walletVars, ptrVars, chainVars>>

\* a header batch arrives
Session_ReceiveHeaders ==
    /\ spv_client_
    /\ \E start \in 1..MaxHeight, len \in 0..BatchSize, bad \in 0..BatchSize :
         /\ start + len - 1 <= MaxHeight
         /\ bad <= len
         /\ LET taken == sync_state = "AwaitingHeaders"
                appended == IF taken THEN Appended(best_height, start, len, bad) ELSE 0
            IN  /\ best_height' = best_height + appended
                /\ wanted' = wanted \cup ((best_height + 1)..(best_height + appended))
                /\ sync_state' = (IF taken THEN StateAfterBatch(len, appended)
                                  ELSE sync_state)
                /\ resp' = [op |-> "Session.Headers", start |-> start, len |-> len,
                            bad |-> bad, taken |-> taken, appended |-> appended]
    /\ calls' = {}
    /\ events' = <<>>
    /\ UNCHANGED <<sdkVars, spv_filter, bloom, spv_syncing, walletVars, ptrVars, chainVars>>

\* a filtered block arrives; matched says whether its proof marks a
\* transaction of the wallet
Session_ReceiveFilteredBlock ==
    /\ spv_client_
    /\ \E height \in 1..(MaxHeight + 1), proof_ok \in BOOLEAN, matched \in BOOLEAN :
         LET accepted == BlockAccepted(sync_state, best_height, height, proof_ok)
         IN  /\ resp' = [op |-> "Session.FilteredBlock", height |-> height,
                         proof_ok |-> proof_ok, accepted |-> accepted,
                         emitted |-> IF accepted /\ matched
                                     THEN <<[type |-> "BlockMatched",
                                             block_height |-> height]>>
                                     ELSE <<>>]
             /\ wanted' = (IF accepted THEN wanted \ {height} ELSE wanted)
    /\ calls' = {}
    /\ events' = <<>>
    /\ UNCHANGED <<sdkVars, best_height, spv_filter, bloom, spv_syncing, sync_state,
                   walletVars, ptrVars, chainVars>>

\* the requested range is exhausted: the session is synced; whether the
\* client still reports IsSyncing() then is not fixed
Session_RangeExhausted ==
    /\ sync_state = "AwaitingFilteredBlocks"
    /\ wanted = {}
    /\ sync_state' = "Synced"
    /\ \E s \in {spv_syncing, FALSE} : spv_syncing' = s
    /\ resp' = [op |-> "Session.SyncCompleted"]
    /\ calls' = {}
    /\ events' = <<>>
    /\ UNCHANGED <<sdkVars, best_height, spv_filter, bloom, wanted, walletVars, ptrVars, chainVars>>

NextSession ==
    \/ SDK_OpenWallet
    \/ SDK_CloseWallet
    \/ SDK_StartSync
    \/ SDK_StopSync
    \/ Session_Connected
    \/ Session_ReceiveHeaders
    \/ Session_ReceiveFilteredBlock
    \/ Session_RangeExhausted

SpecSession == Init /\ [][NextSession]_vars

\* building and sending transactions from a wallet that receives payments
NextTx ==
    \/ SDK_CreateWallet
    \/ SDK_CloseWallet
    \/ SDK_SetTransactionCallback
    \/ WalletReceive
    \/ NewBlock
    \/ SDK_CreateTransaction
    \/ SDK_SendTransaction

SpecTx == Init /\ [][NextTx]_vars

\* SPVClient::AddWatchAddress called for one more watched item
SPV_AddWatchAddress ==
    /\ spv_client_
    /\ \E item \in 1..MaxItems :
         /\ bloom' = AddWatchAddress(bloom, item)
         /\ resp' = [op |-> "SPV.AddWatchAddress", item |-> item]
    /\ calls' = {}
    /\ events' = <<>>
    /\ UNCHANGED <<sdkVars, best_height, spv_filter, spv_syncing, sessVars, walletVars,
                   ptrVars, chainVars>>

\* the bloom filter of the SPV client under the wallet's life cycle
NextBloom ==
    \/ SDK_CreateWallet
    \/ SDK_OpenWallet
    \/ SDK_CloseWallet
    \/ SDK_GetNewAddress
    \/ SPV_AddWatchAddress

SpecBloom == Init /\ [][NextBloom]_vars

\* the header chain fed by a peer
SpecChain == Init /\ [][Chain_TryAppend]_vars

\* ======================================================================
\* Properties
\* ======================================================================
\* the confirmations the specification gives a height h under best height b
ExpectedConfirmations(h, b) == IF 1 <= h /\ h <= b THEN b - h + 1 ELSE 0

\* the block height the wallet records for a transaction hash
HeightOf(txs, tx_hash) ==
    txs[CHOOSE i \in 1..Len(txs) : txs[i].tx_hash = tx_hash].block_height

\* the best height GetUTXOs works from: 0 when it has no SPV client
CurrentHeight == IF spv_client_ THEN best_height ELSE 0

\* C1: the confirmations computed on read, by GetConfirmations for the history
\* entries and inline by GetUTXOs, are b - h + 1 when 1 <= h <= b and 0 when
\* h = 0 or h > b; (8, 10) gives 3, (0, 10) gives 0 and (11, 10) gives 0.
C1_ConfirmationsOnRead ==
    /\ GetConfirmations(8, 10) = 3
    /\ GetConfirmations(0, 10) = 0
    /\ GetConfirmations(11, 10) = 0
    /\ UtxoConfirmations(8, 10) = 3
    /\ UtxoConfirmations(0, 10) = 0
    /\ UtxoConfirmations(11, 10) = 0
    /\ (resp.op = "GetHistory" /\ spv_client_ /\ ~resp.crashed) =>
         \A i \in DOMAIN resp.entries :
            resp.entries[i].confirmations =
               ExpectedConfirmations(HeightOf(wallet_history, resp.entries[i].tx_hash),
                                     best_height)
    /\ resp.op = "GetUTXOs" =>
         \A i \in DOMAIN resp.utxos :
            resp.utxos[i].confirmations =
               ExpectedConfirmations(HeightOf(wallet_utxos, resp.utxos[i].tx_hash),
                                     CurrentHeight)

\* a history page holding an entry buried two deep or more beside an entry
\* whose block is ahead of the best height
C1_Witness ==
    /\ resp.op = "GetHistory" /\ spv_client_ /\ ~resp.crashed
    /\ \E i \in DOMAIN resp.entries : resp.entries[i].confirmations >= 2
    /\ \E i \in DOMAIN resp.entries :
          /\ HeightOf(wallet_history, resp.entries[i].tx_hash) > best_height
          /\ resp.entries[i].confirmations = 0

RECURSIVE SumOver(_, _)
SumOver(us, idx) ==
    IF idx = {} THEN 0
    ELSE LET i == CHOOSE j \in idx : TRUE
         IN  us[i].value + SumOver(us, idx \ {i})

\* the wallet outputs that have at least m confirmations
Confirmed(m) ==
    {i \in 1..Len(wallet_utxos) :
        ExpectedConfirmations(wallet_utxos[i].block_height, CurrentHeight) >= m}

\* C2: GetUTXOs with minConfirmations = m returns exactly the wallet UTXOs
\* with at least m confirmations, in wallet order, and totalAmount is the sum
\* of the returned amounts only.
C2_MinConfirmationsFilter ==
    (resp.op = "GetUTXOs" /\ rpc_wallet_ /\ resp.wallet_ok) =>
        LET keep == Confirmed(resp.min_confirmations)
            kept == SelectSeq(wallet_utxos,
                       LAMBDA u : ExpectedConfirmations(u.block_height, CurrentHeight)
                                     >= resp.min_confirmations)
        IN  /\ Len(resp.utxos) = Len(kept)
            /\ \A j \in DOMAIN resp.utxos :
                  /\ resp.utxos[j].tx_hash = kept[j].tx_hash
                  /\ resp.utxos[j].output_index = kept[j].index
                  /\ resp.utxos[j].amount = kept[j].value
            /\ resp.total_amount = SumOver(wallet_utxos, keep)

\* a threshold of two or more that keeps one output and drops a confirmed one
C2_Witness ==
    /\ resp.op = "GetUTXOs" /\ rpc_wallet_ /\ resp.wallet_ok
    /\ resp.min_confirmations >= 2
    /\ Len(resp.utxos) = 1
    /\ \E i \in 1..Len(wallet_utxos) :
          /\ ExpectedConfirmations(wallet_utxos[i].block_height, CurrentHeight) >= 1
          /\ i \notin Confirmed(resp.min_confirmations)
    /\ resp.total_amount < SumOver(wallet_utxos, 1..Len(wallet_utxos))

\* C3: with a wallet open, MobileSDK::GetBalance returns Ok and a total that
\* is the confirmed plus the unconfirmed balance the opened wallet reports.
C3_BalanceOfOpenWallet ==
    (resp.op = "SDK.GetBalance" /\ wallet_open_) =>
        /\ resp.ok
        /\ resp.total_balance = resp.confirmed_balance + resp.unconfirmed_balance

IsFeeEstimate == resp.op \in {"EstimateFee", "SDK.EstimateFee"}

\* C4: EstimateFee maps targetBlocks to (5000, 0.95) up to 2, (2000, 0.90)
\* from 3 to 6 and (1000, 0.80) above 6, whatever the size; the rate never
\* rises with the target and rate(1) > rate(5) > rate(10).
C4_FeeTiers ==
    /\ IsFeeEstimate =>
         /\ resp.target_blocks <= 2 => resp.fee_rate = 5000 /\ resp.confidence = 95
         /\ (3 <= resp.target_blocks /\ resp.target_blocks <= 6) =>
               resp.fee_rate = 2000 /\ resp.confidence = 90
         /\ resp.target_blocks > 6 => resp.fee_rate = 1000 /\ resp.confidence = 80
         /\ \A t \in 0..resp.target_blocks :
               EstimateFee(resp.tx_size, t).fee_rate >= resp.fee_rate
    /\ EstimateFee(250, 1).fee_rate > EstimateFee(250, 5).fee_rate
    /\ EstimateFee(250, 5).fee_rate > EstimateFee(250, 10).fee_rate

\* an estimate at the upper edge of the middle tier for a large transaction
C4_Witness ==
    /\ resp.op = "EstimateFee"
    /\ resp.target_blocks = 6
    /\ resp.tx_size = 1000000
    /\ resp.fee_rate = 2000

\* x + ... + x, k times, in uint64_t
RECURSIVE Times64(_, _)
Times64(x, k) == IF k = 0 THEN Zero64 ELSE Add64(x, Times64(x, k - 1))

\* C5: for a size of at least 1, estimatedFee = max(1000, ceil(size * rate /
\* 1000)), exactly (no wrap, no rounding below the ceiling), hence >= 1000.
\* Every rate is a whole number k of thousands, so the quotient is size * k.
C5_EstimatedFee ==
    (IsFeeEstimate /\ resp.tx_size >= 1) =>
        LET k == resp.fee_rate \div 1000
            exact == Times64(U64(resp.tx_size), k)
        IN  /\ resp.fee_rate = 1000 * k
            /\ resp.estimated_fee = (IF Lt64(exact, U64(1000)) THEN U64(1000) ELSE exact)
            /\ Le64(U64(1000), resp.estimated_fee)

\* a product that does not fit 32 bits: 1,000,000 bytes at 5000 INTS per KB
C5_Witness ==
    /\ resp.op = "EstimateFee"
    /\ resp.tx_size = 1000000
    /\ resp.fee_rate = 5000
    /\ resp.estimated_fee = U64(5000000)

\* C6: EstimateFee rejects a request of size 0 with an error.
C6_ZeroSizeRejected ==
    (resp.op = "EstimateFee" /\ resp.tx_size = 0) => ~resp.ok

\* the entries of history txs from index from (0-based) up to, not including, upto
HashesFrom(txs, from, upto) ==
    [k \in 1..(IF upto > from THEN upto - from ELSE 0) |-> txs[from + k].tx_hash]

\* C7: for pageSize >= 1 GetHistory returns, in order, the entries at indices
\* page * pageSize up to min(page * pageSize + pageSize, N), none when
\* page * pageSize >= N, with totalCount N, totalPages ceil(N / pageSize) and
\* the page echoed; the index arithmetic does not wrap.
C7_HistoryPage ==
    (resp.op = "GetHistory" /\ spv_client_ /\ rpc_wallet_ /\ resp.wallet_ok
       /\ resp.page_size >= 1) =>
        LET n == Len(wallet_history)
            beyond == resp.page >= 1 /\ (resp.page >= n \/ resp.page_size >= n)
            start == IF beyond \/ resp.page = 0 THEN 0 ELSE resp.page * resp.page_size
            upto == IF resp.page_size >= n - start THEN n ELSE start + resp.page_size
        IN  /\ [i \in DOMAIN resp.entries |-> resp.entries[i].tx_hash] =
                  (IF beyond THEN <<>> ELSE HashesFrom(wallet_history, start, upto))
            /\ resp.total_count = n
            /\ resp.total_pages = (IF n = 0 THEN 0 ELSE ((n - 1) \div resp.page_size) + 1)
            /\ resp.rpage = resp.page

\* C8: Sync never returns more than maxHeaders headers, and the range it asks
\* for neither exceeds maxHeaders heights nor wraps around.
C8_SyncBounded ==
    (resp.op = "Sync" /\ resp.ok) =>
        /\ Len(resp.headers) <= resp.max_headers
        /\ Le64(resp.range_end, U64(resp.best_height))

\* C9: when lastKnownBlockHash is the hash of the held header at height L,
\* Sync returns the headers at heights L+1 .. min(L + maxHeaders, bestHeight),
\* ascending (stated here for maxHeaders >= 1, where the range of C8 is sound).
C9_SyncFollowsLastKnown ==
    (resp.op = "Sync" /\ resp.ok /\ resp.last_block_hash # 0 /\ resp.max_headers >= 1
       /\ HeaderKnown(resp.last_block_hash, best_height)) =>
        LET L == resp.last_block_hash - 1
            top == IF L + resp.max_headers < best_height
                   THEN L + resp.max_headers ELSE best_height
        IN  resp.headers = [k \in 1..(top - L) |-> L + k]

\* the MobileSDK operations that need an open wallet
NeedsWallet ==
    {"SDK.BackupWallet", "SDK.GetNewAddress", "SDK.GetCurrentAddress", "SDK.GetBalance",
     "SDK.GetUTXOs", "SDK.CreateTransaction", "SDK.SendTransaction",
     "SDK.GetTransactionHistory", "SDK.GetTransaction"}

\* C10: an operation that needs an open wallet, called while the wallet is
\* closed, returns the error "Wallet not open", calls neither the SPV client
\* nor the RPC layer, fires no callback and leaves the SDK state unchanged.
C10_ClosedWalletRefused ==
    [][(~wallet_open_ /\ resp'.op \in NeedsWallet) =>
          /\ ~resp'.ok
          /\ resp'.error = "Wallet not open"
          /\ DOMAIN resp' \subseteq
                {"op", "ok", "error", "min_confirmations", "to_address", "amount_ints",
                 "requested_fee_rate", "limit", "offset", "tx_hash"}
          /\ calls' = {}
          /\ events' = <<>>
          /\ UNCHANGED <<sdkVars, spvVars, walletVars, ptrVars, chainVars>>]_vars

\* a send refused on a closed wallet although a callback is registered and
\* the SPV client runs
C10_Witness ==
    /\ resp.op = "SDK.SendTransaction"
    /\ ~wallet_open_
    /\ tx_callback_
    /\ spv_syncing
    /\ resp.error = "Wallet not open"
    /\ events = <<>>

\* the operations that make a wallet the open one
OpensWallet == {"SDK.CreateWallet", "SDK.OpenWallet", "SDK.RestoreWallet"}

\* C11: CreateWallet, OpenWallet and RestoreWallet on an open wallet return
\* "Wallet already open" and leave the wallet, the bloom filter and the sync
\* state as they are; the open wallet stays the same wallet (its history only
\* grows) until a CloseWallet.
C11_AlreadyOpenRefused ==
    [][/\ (wallet_open_ /\ resp'.op \in OpensWallet) =>
             /\ ~resp'.ok
             /\ resp'.error = "Wallet already open"
             /\ calls' = {}
             /\ UNCHANGED <<wallet_, wallet_open_, walletVars, spv_filter, bloom, spv_syncing, sessVars>>
       /\ (wallet_open_ /\ resp'.op # "SDK.CloseWallet") =>
             /\ wallet_open_' /\ wallet_'
             /\ Len(wallet_history') >= Len(wallet_history)
             /\ SubSeq(wallet_history', 1, Len(wallet_history)) = wallet_history
             /\ SubSeq(wallet_utxos', 1, Len(wallet_utxos)) = wallet_utxos]_vars

\* an OpenWallet refused on a wallet that holds a transaction, with the
\* filter loaded and the sync running
C11_Witness ==
    /\ resp.op = "SDK.OpenWallet"
    /\ resp.error = "Wallet already open"
    /\ wallet_open_ /\ wallet_
    /\ wallet_history # <<>>
    /\ spv_filter
    /\ spv_syncing

\* the fee of the transaction CreateTransaction builds: its estimated size
\* of 250 bytes at the rate asked for, or at the estimated rate when none is
FeeOf(requested_fee_rate) ==
    ToNat(EstimatedFee(250, IF requested_fee_rate = 0
                            THEN EstimateFee(250, 6).fee_rate
                            ELSE requested_fee_rate))

\* C12: CreateTransaction reports "Insufficient balance" whenever the wallet's
\* outputs with at least one confirmation total less than amount_ints plus the
\* transaction fee.
C12_InsufficientIncludesFee ==
    (/\ resp.op = "SDK.CreateTransaction"
     /\ wallet_open_
     /\ ValidateAddress(resp.to_address)
     /\ SumOver(wallet_utxos, Confirmed(1))
           < resp.amount_ints + FeeOf(resp.requested_fee_rate)) =>
       (~resp.ok /\ resp.error = "Insufficient balance")

AllDigits(s) == \A i \in 1..Len(s) : IsDigit(SubSeq(s, i, i))

\* the number a string of decimal digits writes, read from the left onto v
\* (the greatest word when the digits write more than a word holds)
RECURSIVE NumberFrom(_, _)
NumberFrom(s, v) ==
    IF s = "" THEN v
    ELSE LET w == Add64(Mul64(v, U64(10)), U64(DigitVal(Head(s))))
         IN  IF Lt64(w, v) THEN MaxU64 ELSE NumberFrom(Tail(s), w)

NumberOf(s) == NumberFrom(s, Zero64)

\* val is digits, a point and exactly six digits, and writes x / 1000000
IsDecimalOf(val, x) ==
    LET n == Len(val)
        whole == SubSeq(val, 1, n - 7)
        frac == SubSeq(val, n - 5, n)
    IN  /\ n >= 8
        /\ SubSeq(val, n - 6, n - 6) = "."
        /\ AllDigits(whole) /\ AllDigits(frac)
        /\ (Len(whole) = 1 \/ Head(whole) # "0")
        /\ Le64(NumberOf(whole), DivMillion(MaxU64))
        /\ Add64(Mul64(NumberOf(whole), U64(1000000)), NumberOf(frac)) = x

\* C13: with amount_ints > 0 the URI is intcoin:<address>?amount=<decimal>
\* where the decimal has exactly six fractional digits and is followed at
\* once by '&' or by the end of the URI; 1500000 with label "Coffee Shop"
\* gives intcoin:<address>?amount=1.500000&label=...
C13_AmountIsPlainDecimal ==
    (resp.op = "SDK.GeneratePaymentURI" /\ resp.amount_ints # Zero64) =>
       LET head == "intcoin:" \o resp.address \o "?amount="
           uri == resp.value
           tail == SubstrFrom(uri, Len(head))
           stop == Find(tail, "&")
           val == IF stop = 0 - 1 THEN tail ELSE Substr(tail, 0, stop)
       IN  /\ Len(uri) >= Len(head)
           /\ Substr(uri, 0, Len(head)) = head
           /\ IsDecimalOf(val, resp.amount_ints)
           /\ (resp.amount_ints = U64(1500000) /\ resp.label = "Coffee Shop") =>
                 Substr(tail, 0, 15) = "1.500000&label="

\* C14: for an address ValidateAddress accepts, parsing the generated URI
\* gives back the address, the amount, the label and the message; a URI
\* without a query string parses to amount 0.
C14_PaymentURIRoundTrip ==
    /\ (resp.op = "SDK.GeneratePaymentURI" /\ ValidateAddress(AddressOf(resp.address))) =>
          LET p == ParsePaymentURI(resp.value)
          IN  /\ p.ok
              /\ p.address = resp.address
              /\ p.amount_ints = resp.amount_ints
              /\ p.label = resp.label
              /\ p.message = resp.message
    /\ (resp.op = "SDK.ParsePaymentURI" /\ resp.ok /\ Find(resp.uri, "?") = 0 - 1) =>
          resp.amount_ints = Zero64

\* C15: FormatINTS(x) is x div 1000000, a point, x mod 1000000 on exactly six
\* digits and " INT", and ParseINTAmount gives x back from it;
\* FormatINTS(1500000) = "1.500000 INT", ParseINTAmount("1.5") = 1500000.
C15_AmountRoundTrip ==
    /\ FormatINTS(U64(1500000)) = "1.500000 INT"
    /\ ParseINTAmount("1.5") = [ok |-> TRUE, error |-> "", value |-> U64(1500000)]
    /\ resp.op = "SDK.FormatINTS" =>
          LET n == Len(resp.value)
          IN  /\ n >= 12
              /\ SubSeq(resp.value, n - 3, n) = " INT"
              /\ IsDecimalOf(SubSeq(resp.value, 1, n - 4), resp.ints)
              /\ ParseINTAmount(resp.value)
                   = [ok |-> TRUE, error |-> "", value |-> resp.ints]

\* an amount whose fraction needs the zero padding, and the largest amount
C15_Witness ==
    /\ resp.op = "SDK.FormatINTS"
    /\ \/ resp.ints = U64(1000001) /\ resp.value = "1.000001 INT"
       \/ resp.ints = MaxU64 /\ resp.value = "18446744073709.551615 INT"

\* C16: for limit >= 1, GetTransactionHistory(limit, offset) on an open wallet
\* returns the wallet-history elements at indices offset .. offset+limit-1
\* that exist, at most limit of them, also when offset is no multiple of limit.
C16_HistoryFromOffset ==
    (resp.op = "SDK.GetTransactionHistory" /\ wallet_open_ /\ resp.limit >= 1) =>
       LET n == Len(wallet_history)
           upto == IF resp.offset + resp.limit > n THEN n ELSE resp.offset + resp.limit
       IN  /\ resp.ok
           /\ Len(resp.entries) <= resp.limit
           /\ [i \in DOMAIN resp.entries |-> resp.entries[i].tx_hash] =
                 HashesFrom(wallet_history, resp.offset, upto)

\* C17: GetTransaction(h) on an open wallet returns the entry with hash h
\* whenever the wallet's history holds a transaction with that hash, and
\* "Transaction not found" only when it holds none.
C17_TransactionFound ==
    (resp.op = "SDK.GetTransaction" /\ wallet_open_) =>
       IF \E i \in 1..Len(wallet_history) : wallet_history[i].tx_hash = resp.tx_hash
       THEN resp.ok /\ resp.value.tx_hash = resp.tx_hash
       ELSE ~resp.ok /\ resp.error = "Transaction not found"

\* C18: StopSync never fails and leaves the session Idle and not syncing from
\* every state (Idle, Connecting, awaiting headers or filtered blocks,
\* Synced); the header chain, the filter and the wallet are not touched; a
\* stop right after a stop changes nothing; with SPV disabled it is a no-op.
C18_StopSyncIdempotent ==
    [][resp'.op = "SDK.StopSync" =>
          /\ resp'.ok
          /\ sync_state' = "Idle" /\ wanted' = {} /\ ~spv_syncing'
          /\ UNCHANGED <<sdkVars, best_height, spv_filter, bloom, walletVars, ptrVars, chainVars>>
          /\ resp.op = "SDK.StopSync" => UNCHANGED <<spvVars, resp, calls>>
          /\ ~enable_spv => (calls' = {} /\ UNCHANGED spvVars)]_vars

\* a second stop in a row, on a session that had accepted headers
C18_Witness ==
    /\ resp.op = "SDK.StopSync"
    /\ calls = {"spv.StopSync"}
    /\ sync_state = "Idle"
    /\ ~spv_syncing
    /\ best_height >= 2

\* the transitions of the sync session the specification lists
SessionTransitions ==
    {<<"Idle", "Connecting">>, <<"Connecting", "AwaitingHeaders">>,
     <<"AwaitingHeaders", "AwaitingFilteredBlocks">>,
     <<"AwaitingFilteredBlocks", "Synced">>}
    \cup {<<s, "Idle">> : s \in SyncStates \ {"Idle"}}

\* C19: the session state changes only along Idle -> Connecting (on start),
\* Connecting -> AwaitingHeaders -> AwaitingFilteredBlocks -> Synced, and to
\* Idle on a stop; a batch leaves AwaitingHeaders and AwaitingFilteredBlocks in
\* place; Synced is entered from AwaitingFilteredBlocks only.
C19_SessionTransitions ==
    [][/\ sync_state' \in SyncStates
       /\ sync_state' # sync_state =>
             /\ <<sync_state, sync_state'>> \in SessionTransitions
             /\ sync_state = "Idle" => resp'.op = "SDK.StartSync"
             /\ sync_state' = "Idle" => resp'.op \in {"SDK.StopSync", "SDK.CloseWallet"}
       /\ resp'.op \in {"Session.Headers", "Session.FilteredBlock"} =>
             (sync_state' = sync_state
                \/ <<sync_state, sync_state'>>
                      = <<"AwaitingHeaders", "AwaitingFilteredBlocks">>)]_vars

\* a session synced after a full and a short header batch
C19_Witness ==
    /\ sync_state = "Synced"
    /\ best_height = MaxHeight
    /\ resp.op = "Session.SyncCompleted"

\* C20: a matched transaction of a block is emitted only when the block's
\* header was accepted into the header chain before.
C20_MatchedAfterHeader ==
    [][resp'.op = "Session.FilteredBlock" =>
          \A i \in DOMAIN resp'.emitted :
             /\ resp'.emitted[i].block_height >= 1
             /\ resp'.emitted[i].block_height <= best_height]_vars

\* a matched transaction emitted for the block at the tip, its header held
C20_Witness ==
    /\ resp.op = "Session.FilteredBlock"
    /\ resp.emitted # <<>>
    /\ resp.height = best_height
    /\ best_height >= 2


\* C22: a header whose prevHash names a stored header (the tip included) but
\* whose hash fails the proof-of-work target is rejected with
\* RejectedInvalidPoW; the stored headers, the tip, the best height and the
\* orphan pool stay as they were.
C22_InvalidPoWRejected ==
    [][(/\ resp'.op = "Chain.tryAppend"
        /\ resp'.prev_hash \in StoredHashes(chain_headers)
        /\ ~MeetsTarget(resp'.hash)) =>
          /\ resp'.result = "RejectedInvalidPoW"
          /\ UNCHANGED chainVars
          /\ BestHeight(chain_headers', chain_tip') = BestHeight(chain_headers, chain_tip)]_vars

\* a header on the tip at height 2 that fails the target was refused
C22_Witness ==
    /\ resp.op = "Chain.tryAppend"
    /\ resp.prev_hash = chain_tip
    /\ ~MeetsTarget(resp.hash)
    /\ resp.result = "RejectedInvalidPoW"
    /\ BestHeight(chain_headers, chain_tip) = 2


\* the total of the wallet's outputs with at least one confirmation
ConfirmedTotal == SumOver(wallet_utxos, Confirmed(1))

\* the address starts with "int1" and is 42 to 62 characters long
WellFormed(address) ==
    address.prefix = "int1" /\ 42 <= address.size /\ address.size <= 62

\* C25: CreateTransaction checks, in this order, that the wallet is open, that
\* the recipient address is valid, and that the confirmed total covers the
\* amount; the error is that of the first check that fails, and the result is
\* never Ok when one of them fails.
C25_ChecksInOrder ==
    resp.op = "SDK.CreateTransaction" =>
        LET valid == WellFormed(resp.to_address)
            covered == ConfirmedTotal >= resp.amount_ints
        IN  /\ ~wallet_open_ => (~resp.ok /\ resp.error = "Wallet not open")
            /\ (wallet_open_ /\ ~valid) =>
                  (~resp.ok /\ resp.error = "Invalid recipient address")
            /\ (wallet_open_ /\ valid /\ ~covered) =>
                  (~resp.ok /\ resp.error = "Insufficient balance")
            /\ resp.ok => (wallet_open_ /\ valid /\ covered)

\* an open wallet with a confirmed output: the address is malformed and the
\* amount exceeds the confirmed total, and the address error is reported
C25_Witness ==
    /\ resp.op = "SDK.CreateTransaction"
    /\ wallet_open_
    /\ ConfirmedTotal >= 1
    /\ ~WellFormed(resp.to_address)
    /\ resp.amount_ints > ConfirmedTotal
    /\ resp.error = "Invalid recipient address"


\* C26: MobileRPC::SendTransaction always returns Ok; accepted is true only if
\* the raw transaction deserialized and BroadcastTransaction was called on the
\* SPV client and succeeded; when accepted is false the error is not empty.
C26_AcceptedMeansBroadcast ==
    resp.op = "SendTransaction" =>
        /\ resp.ok
        /\ resp.accepted => (resp.deser_ok /\ resp.broadcast = "ok")
        /\ ~resp.accepted => resp.error # ""


\* C27: SendTransaction delivers to the registered callback exactly one event,
\* PENDING with the transaction hash and 0 confirmations, if and only if the
\* RPC response is accepted, and then returns that hash; on a closed wallet or
\* a rejected transaction it delivers no event and returns an error.
C27_PendingEventOnAccept ==
    resp.op = "SDK.SendTransaction" =>
        LET accepted == wallet_open_ /\ resp.accepted IN
        /\ IF accepted /\ tx_callback_
           THEN events = <<[type |-> "PENDING", tx_hash |-> resp.value,
                            amount_ints |-> 0, confirmations |-> 0]>>
           ELSE events = <<>>
        /\ accepted <=> resp.ok
        /\ ~accepted => (~resp.ok /\ resp.error # "")

\* an accepted transaction on an open wallet with a callback: one PENDING event
C27_Witness ==
    /\ resp.op = "SDK.SendTransaction"
    /\ wallet_open_
    /\ tx_callback_
    /\ resp.ok
    /\ Len(events) = 1
    /\ events[1].tx_hash = resp.value


\* C28: CloseWallet on an open wallet stops the sync, then clears the bloom
\* filter (both on the SPV client, when there is one), then releases the
\* wallet and makes IsWalletOpen() false; CloseWallet on a closed wallet, a
\* second close or the destructor's, makes no SPV call and changes nothing.
C28_CloseWalletOrder ==
    [][resp'.op = "SDK.CloseWallet" =>
         IF wallet_open_
         THEN /\ resp'.steps =
                    (IF spv_client_ THEN <<"spv.StopSync", "spv.ClearBloomFilter">>
                     ELSE <<>>) \o <<"wallet_.reset", "wallet_open_ = false">>
              /\ calls' = {resp'.steps[i] : i \in 1..(Len(resp'.steps) - 2)}
              /\ spv_client_ => (~spv_syncing' /\ ~spv_filter' /\ bloom'.items = {}
                                 /\ sync_state' = "Idle")
              /\ ~wallet_'
              /\ ~wallet_open_'
         ELSE /\ resp'.steps = <<>>
              /\ calls' = {}
              /\ events' = <<>>
              /\ UNCHANGED <<sdkVars, spvVars, walletVars, ptrVars, chainVars>>]_vars

\* a wallet that was syncing with a filter set has been closed
C28_Witness ==
    /\ resp.op = "SDK.CloseWallet"
    /\ Len(resp.steps) = 4
    /\ resp.steps[1] = "spv.StopSync"
    /\ ~wallet_open_
    /\ ~spv_syncing
    /\ ~spv_filter


\* C29: in every reachable state IsSyncing() implies IsWalletOpen(), and
\* after a CloseWallet the sync is not running.
C29_SyncingImpliesOpen ==
    /\ IsSyncing => IsWalletOpen
    /\ resp.op = "SDK.CloseWallet" => ~IsSyncing

\* the name of the call is one on the SPV client
IsSpvCall(c) == Len(c) >= 4 /\ SubSeq(c, 1, 4) = "spv."

\* C30: with SPV disabled StartSync returns the error "SPV not enabled",
\* IsSyncing() is false, GetSyncProgress() is {0, 0, 0.0, not syncing}, and no
\* operation of MobileSDK reaches a call on the SPV client that does not exist.
C30_SpvDisabledIsInert ==
    ~enable_spv =>
        /\ resp.op = "SDK.StartSync" => (~resp.ok /\ resp.error = "SPV not enabled")
        /\ ~IsSyncing
        /\ resp.op = "SDK.IsSyncing" => ~resp.value
        /\ resp.op = "SDK.GetSyncProgress" =>
              /\ resp.current_height = 0
              /\ resp.target_height = 0
              /\ resp.progress = 0
              /\ ~resp.is_syncing
        /\ \A c \in calls : ~IsSpvCall(c)


\* the documented minimum sizes of the caller buffers, in bytes
MnemonicBytes == 256

AddressBytes == 64

FormattedBytes == 32

PaymentURIBytes == 512

DocumentedSize ==
    [intcoin_sdk_create_wallet |-> MnemonicBytes,
     intcoin_sdk_get_new_address |-> AddressBytes,
     intcoin_sdk_format_ints |-> FormattedBytes,
     intcoin_sdk_generate_payment_uri |-> PaymentURIBytes]

\* the failure value of the functions that return one
FailureValue ==
    [intcoin_sdk_create_wallet |-> -1, intcoin_sdk_open_wallet |-> -1,
     intcoin_sdk_get_new_address |-> -1, intcoin_sdk_get_balance |-> -1,
     intcoin_sdk_send_transaction |-> -1, intcoin_sdk_start_sync |-> -1,
     intcoin_sdk_get_sync_progress |-> 0, intcoin_sdk_validate_address |-> 0]

VoidFunctions ==
    {"intcoin_sdk_destroy", "intcoin_sdk_close_wallet", "intcoin_sdk_stop_sync", "intcoin_sdk_format_ints",
     "intcoin_sdk_generate_payment_uri"}

\* C24: a C-API function that writes a string into a caller buffer writes a
\* NUL-terminated string and no byte past the documented minimum size of the
\* buffer (mnemonic 256, address 64, formatted amount 32, payment URI 512); a
\* C-API function called with a null handle or a null required pointer returns
\* its failure value (-1, 0 or 0.0), or just returns, without any effect and
\* without writing to an output.
C24_BuffersAndNullArguments ==
    [][resp'.op \in DOMAIN FailureValue \cup VoidFunctions =>
         /\ resp'.out.written =>
               /\ resp'.op \in DOMAIN DocumentedSize
               /\ resp'.out.nuls >= 1
               /\ Len(resp'.out.chars) + resp'.out.nuls <= DocumentedSize[resp'.op]
         /\ ~AllSet(resp'.args) =>
               /\ resp'.op \in DOMAIN FailureValue => resp'.ret = FailureValue[resp'.op]
               /\ ~resp'.out.written
               /\ DOMAIN resp' \subseteq {"op", "args", "ret", "out"}
               /\ calls' = {}
               /\ events' = <<>>
               /\ UNCHANGED <<sdkVars, spvVars, walletVars, ptrVars, chainVars>>]_vars

\* a payment URI longer than its buffer was cut to 511 characters and one NUL
C24_Witness ==
    /\ resp.op = "intcoin_sdk_generate_payment_uri"
    /\ resp.out.written
    /\ Len(resp.out.chars) = 511
    /\ resp.out.nuls = 1

====
